---- MODULE Spec2Model ----
(***************************************************************************)
(* A model of posttools: the CMX3600 EDL parser and writer of              *)
(* posttools/edl.py and the Timecode / TimecodeRange values of             *)
(* posttools/timecode.py it builds on.                                     *)
(*                                                                         *)
(* Text is modelled at the character level.  A token is a sequence of      *)
(* one-character strings; a line is the sequence of its whitespace         *)
(* delimited tokens, a flag telling whether it starts with whitespace,     *)
(* and the position of a form feed among its separators (form feed is      *)
(* whitespace for str.split and for \s, and a line boundary for            *)
(* str.splitlines).  The amount of blank space between two tokens is not   *)
(* modelled: no code of the parser depends on it.                          *)
(***************************************************************************)
EXTENDS Integers, Sequences, FiniteSets, TLC

(***************************************************************************)
(* Bounds of the model.                                                    *)
(***************************************************************************)
MaxBody == 3
MaxRounds == 1

(***************************************************************************)
(* Characters and the str methods the parser uses.                         *)
(***************************************************************************)
Digits == <<"0", "1", "2", "3", "4", "5", "6", "7", "8", "9">>

UpperChars == <<"A", "B", "C", "D", "E", "F", "G", "H", "I", "J", "K", "L", "M",
                "N", "O", "P", "Q", "R", "S", "T", "U", "V", "W", "X", "Y", "Z">>

LowerChars == <<"a", "b", "c", "d", "e", "f", "g", "h", "i", "j", "k", "l", "m",
                "n", "o", "p", "q", "r", "s", "t", "u", "v", "w", "x", "y", "z">>

IsDigit(c) == \E i \in 1..10 : Digits[i] = c

DigitVal(c) == (CHOOSE i \in 1..10 : Digits[i] = c) - 1

LowerChar(c) ==
    IF \E i \in 1..26 : UpperChars[i] = c
    THEN LowerChars[CHOOSE i \in 1..26 : UpperChars[i] = c]
    ELSE c

UpperChar(c) ==
    IF \E i \in 1..26 : LowerChars[i] = c
    THEN UpperChars[CHOOSE i \in 1..26 : LowerChars[i] = c]
    ELSE c

\* str.lower()
Lower(t) == [i \in 1..Len(t) |-> LowerChar(t[i])]

\* str.upper()
Upper(t) == [i \in 1..Len(t) |-> UpperChar(t[i])]

\* str.isnumeric(), and the regex \d+ on ASCII text
IsNumeric(t) == Len(t) > 0 /\ \A i \in 1..Len(t) : IsDigit(t[i])

\* the regex \d* on ASCII text
AllDigits(t) == \A i \in 1..Len(t) : IsDigit(t[i])

RECURSIVE ToInt(_)
\* int(t) of a decimal token
ToInt(t) ==
    IF Len(t) = 0 THEN 0
    ELSE 10 * ToInt(SubSeq(t, 1, Len(t) - 1)) + DigitVal(t[Len(t)])

RECURSIVE IntStr(_)
\* str(n) of a natural number
IntStr(n) ==
    IF n < 10 THEN <<Digits[n + 1]>>
    ELSE IntStr(n \div 10) \o <<Digits[(n % 10) + 1]>>

RECURSIVE ZFill(_, _)
\* str.zfill(w), and the format spec 0wd, of an unsigned decimal
ZFill(t, w) == IF Len(t) >= w THEN t ELSE ZFill(<<"0">> \o t, w)

RECURSIVE SplitOn(_, _)
\* str.split(sep) for a one-character separator
SplitOn(t, sep) ==
    IF \E i \in 1..Len(t) : t[i] = sep
    THEN LET p == CHOOSE i \in 1..Len(t) :
                      t[i] = sep /\ \A j \in 1..(i - 1) : t[j] # sep
         IN  <<SubSeq(t, 1, p - 1)>> \o SplitOn(SubSeq(t, p + 1, Len(t)), sep)
    ELSE <<t>>

RECURSIVE StripChar(_, _)
\* str.strip(c)
StripChar(t, c) ==
    IF Len(t) > 0 /\ (t[1] = c \/ t[Len(t)] = c)
    THEN StripChar(IF t[1] = c THEN Tail(t) ELSE SubSeq(t, 1, Len(t) - 1), c)
    ELSE t

RECURSIVE Flatten(_)
\* concatenation of a sequence of sequences
Flatten(ss) == IF ss = <<>> THEN <<>> ELSE Head(ss) \o Flatten(Tail(ss))

(***************************************************************************)
(* Timecode and TimecodeRange (posttools/timecode.py), as far as the EDL   *)
(* statements use them: text at the default rate, non-drop-frame.          *)
(***************************************************************************)
NDF == "NDF"
DF == "DF"
DefaultRate == 24
\* Python's None, where a number is expected and where a mode is
None == -1
NoMode == "None"

\* match.group(2).replace(';', ':').strip(':').split(':')
tc_group_texts(body) ==
    SplitOn(StripChar([i \in 1..Len(body) |-> IF body[i] = ";" THEN ":" ELSE body[i]], ":"), ":")

\* (?:[:;]?\d+){1,4} on text whose groups are g
PatTcGroups(t, g) ==
    /\ Len(t) > 0
    /\ Len(g) \in 1..4
    /\ \A i \in 1..Len(g) : IsNumeric(g[i])
    /\ IsDigit(t[Len(t)])
    /\ \A i \in 1..(Len(t) - 1) : t[i] \in {":", ";"} => IsDigit(t[i + 1])

PatTcBody(t) == PatTcGroups(t, tc_group_texts(t))

\* Timecode.pat_tc: an optional sign, then one to four groups of digits,
\* each optionally preceded by ':' or ';'
pat_tc(t) ==
    /\ Len(t) > 0
    /\ PatTcBody(IF t[1] \in {"+", "-"} THEN Tail(t) ELSE t)

\* the weights with the minutes counted as seconds
GroupWeight_MinutesAsSeconds(k, rate) ==
    CASE k = 4 -> 60 * 60 * rate
      [] k = 3 -> rate
      [] k = 2 -> rate
      [] OTHER -> 1

\* the weight in frames of timecode group k, counted from the right:
\* frames, seconds, minutes, hours
GroupWeight(k, rate) ==
    CASE k = 4 -> 60 * 60 * rate
      [] k = 3 -> 60 * rate
      [] k = 2 -> rate
      [] OTHER -> 1

RECURSIVE GroupSum(_, _)
\* the loop of Timecode._setFromString over tc_groups
GroupSum(g, rate) ==
    IF g = <<>> THEN 0
    ELSE Head(g) * GroupWeight(Len(g), rate) + GroupSum(Tail(g), rate)

\* [int(x) for x in ...]
ToInts(g) == [i \in 1..Len(g) |-> ToInt(g[i])]

\* Timecode._setFromString: groups weighted right to left as frames,
\* seconds, minutes, hours; negative when the sign is '-'
setFromString(t, rate) ==
    (IF t[1] = "-" THEN -1 ELSE 1)
    * GroupSum(ToInts(tc_group_texts(IF t[1] \in {"+", "-"} THEN Tail(t) ELSE t)), rate)

\* Timecode.__init__ from text, with _validate
TimecodeFromText(t, rate, mode) ==
    IF ~pat_tc(t) \/ rate < 1 \/ (mode = DF /\ rate % 30 # 0)
    THEN [ok |-> FALSE, raised |-> "InvalidTimecode"]
    ELSE [ok |-> TRUE,
          tc |-> [framenumber |-> setFromString(t, rate), rate |-> rate, mode |-> mode]]

\* Timecode.__init__ from an integer
TimecodeFromInt(n, rate, mode) == [framenumber |-> n, rate |-> rate, mode |-> mode]

\* round(x) of the number num / den, den > 0: to the nearest integer, a
\* half to the even one
RoundHalfEven(num, den) ==
    IF 2 * (num % den) > den \/ (2 * (num % den) = den /\ (num \div den) % 2 = 1)
    THEN (num \div den) + 1
    ELSE num \div den

\* _validate without the check of the drop-frame rate
validate_AnyRateDropFrame(rate, mode) ==
    IF rate < 1 THEN [ok |-> FALSE, raised |-> "InvalidTimecode"]
    ELSE [ok |-> TRUE]

\* Timecode._validate
validate(rate, mode) ==
    IF rate < 1 THEN [ok |-> FALSE, raised |-> "InvalidTimecode"]
    ELSE IF mode = DF /\ rate % 30 # 0 THEN [ok |-> FALSE, raised |-> "InvalidTimecode"]
    ELSE [ok |-> TRUE]

\* the values a caller passes for a timecode or an operand: text, an
\* integer, a float (in hundredths), a Timecode, or None
TextArg(t) == [kind |-> "str", text |-> t]

IntArg(n) == [kind |-> "int", n |-> n]

FloatArg(hundredths) == [kind |-> "float", hundredths |-> hundredths]

TimecodeArg(tc) == [kind |-> "Timecode", tc |-> tc]

NoneArg == [kind |-> "None"]

\* the frame number Timecode.__init__ takes from its first argument:
\* _setFromString for text, the integer itself, round() of a float;
\* anything round() does not accept raises InvalidTimecode
framenumber_of(timecode, rate) ==
    CASE timecode.kind = "str" ->
             IF pat_tc(timecode.text)
             THEN [ok |-> TRUE, framenumber |-> setFromString(timecode.text, rate)]
             ELSE [ok |-> FALSE, raised |-> "InvalidTimecode"]
      [] timecode.kind = "int" -> [ok |-> TRUE, framenumber |-> timecode.n]
      [] timecode.kind = "float" ->
             [ok |-> TRUE, framenumber |-> RoundHalfEven(timecode.hundredths, 100)]
      [] OTHER -> [ok |-> FALSE, raised |-> "InvalidTimecode"]

\* the end of Timecode.__init__: the object, when _validate lets it be
TimecodeOf(fn, rate, mode, valid) ==
    IF ~fn.ok THEN fn
    ELSE IF ~valid.ok THEN valid
    ELSE [ok |-> TRUE, tc |-> [framenumber |-> fn.framenumber, rate |-> rate, mode |-> mode]]

\* Timecode.__init__ for a rate already rounded and a mode already chosen
TimecodeAt(timecode, rate, mode) ==
    TimecodeOf(framenumber_of(timecode, rate), rate, mode, validate(rate, mode))

\* Timecode(timecode, rate, mode): the rate (given in hundredths of a
\* frame per second) is rounded, the mode None or omitted is NDF
Timecode(timecode, rate100, mode) ==
    TimecodeAt(timecode, RoundHalfEven(rate100, 100), IF mode = NoMode THEN NDF ELSE mode)

\* Timecode.is_compatible
is_compatible(a, b) == a.mode = b.mode /\ a.rate = b.rate

\* Timecode.__add__ and __sub__ for operands of one rate and mode
\* (resample returns its operand itself in that case)
TcAdd(a, b) == TimecodeFromInt(a.framenumber + b.framenumber, a.rate, a.mode)

TcSub(a, b) == TimecodeFromInt(a.framenumber - b.framenumber, a.rate, a.mode)

Abs(n) == IF n < 0 THEN -n ELSE n

Max(a, b) == IF a > b THEN a ELSE b

\* Timecode.Mode.DF.to_adjusted_framenumber: what the method returns is the
\* count of dropped labels alone (the frame number is not added to it)
DF_to_adjusted_framenumber(framenumber, rate) ==
    LET drop_offset == (2 * rate) \div 30
        full_minute == rate * 60
        drop_minute == full_minute - drop_offset
        drop_segment == full_minute + (drop_minute * 9)
        remaining_drop_frames == Max((Abs(framenumber) % drop_segment) - full_minute + 1, 0)
    IN  ((Abs(framenumber) \div drop_segment) * (9 * drop_offset))
        + ((remaining_drop_frames \div drop_minute) * drop_offset)
        + (IF remaining_drop_frames % drop_minute # 0 THEN drop_offset ELSE 0)

\* self.mode.to_adjusted_framenumber(self.framenumber, self.rate);
\* Timecode.Mode.NDF returns the frame number itself
to_adjusted_framenumber(tc) ==
    IF tc.mode = DF THEN DF_to_adjusted_framenumber(tc.framenumber, tc.rate)
    ELSE tc.framenumber

\* Timecode.hours / minutes / seconds / frames, without their sign
\* (formatted takes their absolute value)
TcHours(tc) == Abs(to_adjusted_framenumber(tc)) \div (tc.rate * 60 * 60)

\* the minutes not wrapped at the hour
TcMinutes_Unwrapped(tc) == Abs(to_adjusted_framenumber(tc)) \div (tc.rate * 60)

TcMinutes(tc) == (Abs(to_adjusted_framenumber(tc)) \div (tc.rate * 60)) % 60

TcSeconds(tc) == (Abs(to_adjusted_framenumber(tc)) \div tc.rate) % 60

TcFrames(tc) == Abs(to_adjusted_framenumber(tc)) % tc.rate

\* Timecode.formatted: the sign is that of the adjusted frame number, the
\* separator before the frames is ';' in drop-frame mode
formatted(tc) ==
    (IF to_adjusted_framenumber(tc) < 0 THEN <<"-">> ELSE <<>>)
    \o ZFill(IntStr(TcHours(tc)), 2) \o <<":">>
    \o ZFill(IntStr(TcMinutes(tc)), 2) \o <<":">>
    \o ZFill(IntStr(TcSeconds(tc)), 2) \o <<(IF tc.mode = DF THEN ";" ELSE ":")>>
    \o ZFill(IntStr(TcFrames(tc)), 2)

RECURSIVE Pow2(_)
Pow2(n) == IF n = 0 THEN 1 ELSE 2 * Pow2(n - 1)

RECURSIVE Pow2Mod(_, _)
\* 2^n modulo m
Pow2Mod(n, m) == IF n = 0 THEN 1 % m ELSE (2 * Pow2Mod(n - 1, m)) % m

RECURSIVE FloorLog2(_, _)
\* the binary exponent of the positive number n / d: the e with
\* 2^e <= n / d < 2^(e + 1)
FloorLog2(n, d) ==
    IF n >= 2 * d THEN 1 + FloorLog2(n, 2 * d)
    ELSE IF n < d THEN FloorLog2(2 * n, d) - 1
    ELSE 0

\* the float new_rate / self.rate (IEEE 754 binary64, 53 significant bits,
\* round to nearest even) for positive integers n and d: its distance
\* from the exact quotient, as the integer err with
\*   float = n / d + err / (d * 2^(52 - FloorLog2(n, d)))
FloatDivError(n, d) ==
    LET r2 == ((n % (2 * d)) * Pow2Mod(52 - FloorLog2(n, d), 2 * d)) % (2 * d)
        r == r2 % d
    IN  IF 2 * r > d \/ (2 * r = d /\ r2 >= d) THEN d - r ELSE -r

\* round(f * factor) for a whole f > 0 and the float factor = n / d with
\* error err.  When f * n / d is not half-way between two integers the
\* float product is close enough to round like it.  When it is half-way,
\* x + 1/2, the float product is that very number if the error of the
\* factor, scaled by f, stays within half a unit in its last place (a
\* quarter below a power of two), and then round() goes to the even
\* neighbour; otherwise the product lies on the error's side and round()
\* goes there
RoundOfFloatProduct(f, n, d, err) ==
    LET x == (f * n) \div d
        half_ulp == d * Pow2(FloorLog2(f * n, d) - FloorLog2(n, d))
        exact == IF err < 0 /\ 2 * f * n = d THEN 4 * f * (-err) <= half_ulp
                 ELSE 2 * f * Abs(err) <= half_ulp
    IN  IF (2 * f * n) % d # 0 \/ ((2 * f * n) \div d) % 2 = 0 THEN RoundHalfEven(f * n, d)
        ELSE IF exact THEN (IF x % 2 = 0 THEN x ELSE x + 1)
        ELSE IF err > 0 THEN x + 1
        ELSE x

\* round(old_framenumber * factor) with factor = new_rate / self.rate
resampled_framenumber(framenumber, new_rate, rate) ==
    IF framenumber = 0 THEN 0
    ELSE (IF framenumber < 0 THEN -1 ELSE 1)
         * RoundOfFloatProduct(Abs(framenumber), new_rate, rate, FloatDivError(new_rate, rate))

\* resample without the refusal of drop-frame
resample_DropFrameAllowed(tc, rate, mode) ==
    LET new_rate == IF rate = None \/ rate = 0 THEN tc.rate ELSE rate
        new_mode == IF mode = NoMode THEN tc.mode ELSE mode
    IN  IF new_rate = tc.rate /\ new_mode = tc.mode THEN [ok |-> TRUE, tc |-> tc, same |-> TRUE]
        ELSE [same |-> FALSE]
             @@ TimecodeAt(IntArg(resampled_framenumber(tc.framenumber, new_rate, tc.rate)),
                           new_rate, new_mode)

\* Timecode.resample(rate, mode), rate a whole number or None; same tells
\* that the object returned is self
resample(tc, rate, mode) ==
    LET new_rate == IF rate = None \/ rate = 0 THEN tc.rate ELSE rate
        new_mode == IF mode = NoMode THEN tc.mode ELSE mode
    IN  IF new_rate = tc.rate /\ new_mode = tc.mode THEN [ok |-> TRUE, tc |-> tc, same |-> TRUE]
        ELSE IF tc.mode = DF \/ new_mode = DF THEN [ok |-> FALSE, raised |-> "NotImplementedError"]
        ELSE [same |-> FALSE]
             @@ TimecodeAt(IntArg(resampled_framenumber(tc.framenumber, new_rate, tc.rate)),
                           new_rate, new_mode)

\* Timecode._cmp_normalize
cmp_normalize(tc, other) ==
    IF other.kind = "Timecode" THEN [ok |-> TRUE, tc |-> other.tc]
    ELSE TimecodeAt(other, tc.rate, tc.mode)

\* self._cmp_normalize(other).resample(self.rate, self.mode)
resampled(tc, normal) == IF normal.ok THEN resample(normal.tc, tc.rate, tc.mode) ELSE normal

\* the operand of an operator of tc, brought to tc's rate and mode
coerce(tc, other) == resampled(tc, cmp_normalize(tc, other))

\* the operators with // in place of /
operate_FloorDivision(op, a, b) ==
    CASE op = "+" -> [ok |-> TRUE, framenumber |-> a + b]
      [] op = "-" -> [ok |-> TRUE, framenumber |-> a - b]
      [] op = "*" -> [ok |-> TRUE, framenumber |-> a * b]
      [] op = "/" -> IF b = 0 THEN [ok |-> FALSE, raised |-> "ZeroDivisionError"]
                     ELSE [ok |-> TRUE,
                           framenumber |-> IF b > 0 THEN a \div b ELSE (-a) \div (-b)]

\* the number an operator hands to Timecode(): an integer for + - *, the
\* float quotient for /, which is half-way between two integers only if
\* the exact quotient is, so that round() of it is round() of the latter
operate(op, a, b) ==
    CASE op = "+" -> [ok |-> TRUE, framenumber |-> a + b]
      [] op = "-" -> [ok |-> TRUE, framenumber |-> a - b]
      [] op = "*" -> [ok |-> TRUE, framenumber |-> a * b]
      [] op = "/" -> IF b = 0 THEN [ok |-> FALSE, raised |-> "ZeroDivisionError"]
                     ELSE [ok |-> TRUE,
                           framenumber |-> IF b > 0 THEN RoundHalfEven(a, b)
                                           ELSE RoundHalfEven(-a, -b)]

\* Timecode(self.framenumber op other.framenumber, self.rate, self.mode)
operated(op, tc, other) ==
    IF ~other.ok THEN other
    ELSE TimecodeOf(operate(op, tc.framenumber, other.tc.framenumber), tc.rate, tc.mode,
                    validate(tc.rate, tc.mode))

\* Timecode.__add__ / __sub__ / __mul__ / __truediv__
arith(op, tc, other) == operated(op, tc, coerce(tc, other))

\* the comparison without the rate
eq_normal_IgnoringRate(tc, normal) ==
    IF ~normal.ok THEN normal
    ELSE [ok |-> TRUE,
          value |-> tc.mode = normal.tc.mode /\ tc.framenumber = normal.tc.framenumber]

\* the comparison at the end of Timecode.__eq__
eq_normal(tc, normal) ==
    IF ~normal.ok THEN normal
    ELSE [ok |-> TRUE,
          value |-> is_compatible(tc, normal.tc) /\ tc.framenumber = normal.tc.framenumber]

\* Timecode.__eq__
eq(tc, other) == eq_normal(tc, cmp_normalize(tc, other))

\* hash() of the tuple (framenumber, rate, mode): a function of the three
\* values.  CPython's function is not modelled; a small one, under which
\* different tuples may collide, stands for it
HashSpace == 16

hash(tc) ==
    (((tc.framenumber % HashSpace) * 3 + tc.rate) * 3 + (IF tc.mode = DF THEN 1 ELSE 0))
    % HashSpace

\* set.add(x) on a set kept as the sequence of its elements: x is left
\* out when an element with the same hash is equal to it
PySetAdd(elements, x) ==
    IF \E i \in 1..Len(elements) :
           hash(elements[i]) = hash(x) /\ eq(elements[i], TimecodeArg(x)).value
    THEN elements
    ELSE Append(elements, x)

RECURSIVE PySet(_)
\* the set literal {xs[1], ..., xs[n]}
PySet(xs) ==
    IF xs = <<>> THEN <<>> ELSE PySetAdd(PySet(SubSeq(xs, 1, Len(xs) - 1)), xs[Len(xs)])

\* self.mode < other.mode and self.mode > other.mode: the modes are the
\* classes Mode.NDF and Mode.DF, which define no ordering, so that
\* comparing them raises TypeError whichever classes they are
mode_lt(a, b) == [ok |-> FALSE, raised |-> "TypeError"]

mode_gt(a, b) == [ok |-> FALSE, raised |-> "TypeError"]

\* the body of Timecode.__lt__ after _cmp_normalize
lt_normal(tc, normal) ==
    IF ~normal.ok THEN normal
    ELSE IF tc.mode # normal.tc.mode THEN mode_lt(tc.mode, normal.tc.mode)
    ELSE IF tc.rate # normal.tc.rate THEN [ok |-> TRUE, value |-> tc.rate < normal.tc.rate]
    ELSE [ok |-> TRUE, value |-> tc.framenumber < normal.tc.framenumber]

\* Timecode.__lt__
lt(tc, other) == lt_normal(tc, cmp_normalize(tc, other))

\* the body of Timecode.__gt__ after _cmp_normalize
gt_normal(tc, normal) ==
    IF ~normal.ok THEN normal
    ELSE IF tc.mode # normal.tc.mode THEN mode_gt(tc.mode, normal.tc.mode)
    ELSE IF tc.rate # normal.tc.rate THEN [ok |-> TRUE, value |-> tc.rate > normal.tc.rate]
    ELSE [ok |-> TRUE, value |-> tc.framenumber > normal.tc.framenumber]

\* Timecode.__gt__
gt(tc, other) == gt_normal(tc, cmp_normalize(tc, other))

\* the rest of Timecode.__le__ once self.mode > other.mode is known
le_modes(tc, normal, mode_greater) ==
    IF ~mode_greater.ok THEN mode_greater
    ELSE IF mode_greater.value THEN [ok |-> TRUE, value |-> FALSE]
    ELSE IF tc.rate > normal.tc.rate THEN [ok |-> TRUE, value |-> FALSE]
    ELSE [ok |-> TRUE, value |-> tc.framenumber <= normal.tc.framenumber]

\* the body of Timecode.__le__ after _cmp_normalize: the modes are
\* compared with > first, whatever they are
le_normal(tc, normal) ==
    IF ~normal.ok THEN normal ELSE le_modes(tc, normal, mode_gt(tc.mode, normal.tc.mode))

\* Timecode.__le__
le(tc, other) == le_normal(tc, cmp_normalize(tc, other))

\* the rest of Timecode.__ge__ once self.mode < other.mode is known
ge_modes(tc, other, mode_less) ==
    IF ~mode_less.ok THEN mode_less
    ELSE IF mode_less.value THEN [ok |-> TRUE, value |-> FALSE]
    ELSE IF tc.rate < other.rate THEN [ok |-> TRUE, value |-> FALSE]
    ELSE [ok |-> TRUE, value |-> tc.framenumber >= other.framenumber]

\* Timecode.__ge__: other is not normalised, so that anything but a
\* Timecode has no attribute mode
ge(tc, other) ==
    IF other.kind # "Timecode" THEN [ok |-> FALSE, raised |-> "AttributeError"]
    ELSE ge_modes(tc, other.tc, mode_lt(tc.mode, other.tc.mode))

\* a < b, a > b, a <= b, a >= b for a Timecode a
compare(op, tc, other) ==
    CASE op = "<" -> lt(tc, other)
      [] op = ">" -> gt(tc, other)
      [] op = "<=" -> le(tc, other)
      [] op = ">=" -> ge(tc, other)

RECURSIVE SortedInsert(_, _)
\* x put in its place among all but the last element of a sorted list,
\* the last element following
SortedInsertRest(placed, last_element) ==
    IF ~placed.ok THEN placed
    ELSE [ok |-> TRUE, value |-> Append(placed.value, last_element)]

SortedInsertBefore(elements, x) ==
    SortedInsertRest(SortedInsert([ok |-> TRUE, value |-> SubSeq(elements, 1, Len(elements) - 1)], x),
                     elements[Len(elements)])

\* x put in its place in a sorted list, found with x < sorted[i] from the
\* right; a comparison that raises ends the sort
SortedInsert(sorted_, x) ==
    IF ~sorted_.ok THEN sorted_
    ELSE IF sorted_.value = <<>> THEN [ok |-> TRUE, value |-> <<x>>]
    ELSE IF ~lt(x, TimecodeArg(sorted_.value[Len(sorted_.value)])).ok
         THEN lt(x, TimecodeArg(sorted_.value[Len(sorted_.value)]))
    ELSE IF ~lt(x, TimecodeArg(sorted_.value[Len(sorted_.value)])).value
         THEN [ok |-> TRUE, value |-> Append(sorted_.value, x)]
    ELSE SortedInsertBefore(sorted_.value, x)

\* sorted(xs) for a list of Timecodes: Timecode.__lt__ is the only
\* comparison list.sort makes
RECURSIVE PySorted(_)
PySorted(xs) ==
    IF xs = <<>> THEN [ok |-> TRUE, value |-> <<>>]
    ELSE SortedInsert(PySorted(SubSeq(xs, 1, Len(xs) - 1)), xs[Len(xs)])

\* TimecodeRange.__init__(start=, end=) without the check of the duration
TimecodeRangeStartEnd_AnyDuration(s, e) ==
    IF ~is_compatible(s, e)
    THEN [ok |-> FALSE, raised |-> "IncompatibleTimecode", at |-> "TimecodeRange"]
    ELSE [ok |-> TRUE, range |-> [start |-> s, duration |-> TcSub(e, s)]]

\* TimecodeRange.__init__(start=, end=): the duration is end - start and
\* must be at least one frame
TimecodeRangeStartEnd(s, e) ==
    IF ~is_compatible(s, e) \/ TcSub(e, s).framenumber < 1
    THEN [ok |-> FALSE, raised |-> "IncompatibleTimecode", at |-> "TimecodeRange"]
    ELSE [ok |-> TRUE, range |-> [start |-> s, duration |-> TcSub(e, s)]]

\* TimecodeRange(start=s, end=e) for the results s and e of two Timecode(...)
TimecodeRangeOf(s, e) ==
    IF ~s.ok THEN [ok |-> FALSE, raised |-> s.raised, at |-> "Timecode"]
    ELSE IF ~e.ok THEN [ok |-> FALSE, raised |-> e.raised, at |-> "Timecode"]
    ELSE TimecodeRangeStartEnd(s.tc, e.tc)

\* TimecodeRange(start=Timecode(a), end=Timecode(b))
TimecodeRangeFromText(a, b) ==
    TimecodeRangeOf(TimecodeFromText(a, DefaultRate, NDF), TimecodeFromText(b, DefaultRate, NDF))

\* TimecodeRange.end
RangeEnd(r) == TcAdd(r.start, r.duration)

(***************************************************************************)
(* TimecodeRange with any two of start, end and duration.                  *)
(***************************************************************************)
\* an argument that is a TimecodeRange
RangeArg(r) == [kind |-> "TimecodeRange", range |-> r]

IncompatibleTimecode == [ok |-> FALSE, raised |-> "IncompatibleTimecode"]

\* the end of TimecodeRange.__init__ without the check of the duration
RangeValidated_AnyDuration(s, d, too_short) ==
    IF ~too_short.ok THEN too_short
    ELSE [ok |-> TRUE, range |-> [start |-> s, duration |-> d]]

\* the end of TimecodeRange.__init__: self._duration < 1 raises
\* IncompatibleTimecode
RangeValidated(s, d, too_short) ==
    IF ~too_short.ok THEN too_short
    ELSE IF too_short.value THEN IncompatibleTimecode
    ELSE [ok |-> TRUE, range |-> [start |-> s, duration |-> d]]

\* the range of start s and duration d, once self._duration < 1 is known
RangeChecked(s, d) == RangeValidated(s, d, lt(d, IntArg(1)))

\* the range whose start is the end given
RangeFromStart_FromEnd(s, d) ==
    IF ~s.ok THEN s
    ELSE RangeChecked([s.tc EXCEPT !.framenumber = s.tc.framenumber + d.framenumber], d)

\* the range whose start came from end - duration
RangeFromStart(s, d) == IF ~s.ok THEN s ELSE RangeChecked(s.tc, d)

\* the range whose duration came from end - start
RangeFromDuration(s, d) == IF ~d.ok THEN d ELSE RangeChecked(s, d.tc)

\* end != (start + duration)
ne_sum(end_, sum) == IF ~sum.ok THEN sum ELSE [ok |-> TRUE, value |-> ~eq(end_, TimecodeArg(sum.tc)).value]

\* the first branch of TimecodeRange.__init__ once end != start + duration
\* is known (FALSE when no end is given)
RangeAgreeing(s, d, disagrees) ==
    IF ~disagrees.ok THEN disagrees
    ELSE IF disagrees.value THEN IncompatibleTimecode
    ELSE RangeChecked(s, d)

\* TimecodeRange(start=, end=, duration=), end ending in _ as end is not
\* a name here; an argument that is not a Timecode counts as not given
TimecodeRange(start, end_, duration) ==
    IF start.kind = "Timecode" /\ duration.kind = "Timecode"
    THEN IF ~is_compatible(start.tc, duration.tc) THEN IncompatibleTimecode
         ELSE RangeAgreeing(start.tc, duration.tc,
                            IF end_.kind = "Timecode"
                            THEN ne_sum(end_.tc, arith("+", start.tc, duration))
                            ELSE [ok |-> TRUE, value |-> FALSE])
    ELSE IF start.kind = "Timecode" /\ end_.kind = "Timecode"
    THEN IF ~is_compatible(start.tc, end_.tc) THEN IncompatibleTimecode
         ELSE RangeFromDuration(start.tc, arith("-", end_.tc, start))
    ELSE IF duration.kind = "Timecode" /\ end_.kind = "Timecode"
    THEN IF ~is_compatible(duration.tc, end_.tc) THEN IncompatibleTimecode
         ELSE RangeFromStart(arith("-", end_.tc, duration), duration.tc)
    ELSE [ok |-> FALSE, raised |-> "ValueError"]

\* TimecodeRange.end as the call self._start + self._duration
range_end(r) == arith("+", r.start, TimecodeArg(r.duration))

\* TimecodeRange.__eq__
range_eq(r, other) ==
    IF other.kind = "TimecodeRange"
    THEN /\ eq(r.start, TimecodeArg(other.range.start)).value
         /\ eq(r.duration, TimecodeArg(other.range.duration)).value
    ELSE FALSE

\* a and b of Python for two comparisons: b is not evaluated when a
\* raised or is False
py_and(a, b) == IF ~a.ok THEN a ELSE IF ~a.value THEN a ELSE b

\* TimecodeRange.__contains__
range_contains(r, other) ==
    IF other.kind = "TimecodeRange" /\ is_compatible(r.start, other.range.start)
    THEN py_and(le(r.start, TimecodeArg(other.range.start)),
                ge(range_end(r).tc, TimecodeArg(range_end(other.range).tc)))
    ELSE IF other.kind = "Timecode" /\ is_compatible(r.start, other.tc)
    THEN py_and(le(r.start, other), le(other.tc, TimecodeArg(range_end(r).tc)))
    ELSE [ok |-> TRUE, value |-> FALSE]

\* the iteration with the end frame included
range_iter_Inclusive(r) ==
    [i \in 1..Max(range_end(r).tc.framenumber - r.start.framenumber + 1, 0) |->
        TimecodeAt(IntArg(r.start.framenumber + i - 1), r.start.rate, r.start.mode).tc]

\* TimecodeRange.__iter__: one Timecode for each frame of
\* range(self.start.framenumber, self.end.framenumber)
range_iter(r) ==
    [i \in 1..Max(range_end(r).tc.framenumber - r.start.framenumber, 0) |->
        TimecodeAt(IntArg(r.start.framenumber + i - 1), r.start.rate, r.start.mode).tc]

\* TimecodeRange.__len__
range_len(r) == r.duration.framenumber

\* TimecodeRange(start=s, duration=d) for the results of two resample calls
RangeOfResampled(s, d) ==
    IF ~s.ok THEN [ok |-> FALSE, raised |-> s.raised]
    ELSE IF ~d.ok THEN [ok |-> FALSE, raised |-> d.raised]
    ELSE TimecodeRange(TimecodeArg(s.tc), NoneArg, TimecodeArg(d.tc))

\* TimecodeRange.resample
range_resample(r, rate, mode) ==
    RangeOfResampled(resample(r.start, rate, mode), resample(r.duration, rate, mode))

(***************************************************************************)
(* Shots: Masterclip and Subclip.                                          *)
(***************************************************************************)
\* an argument that is a Shot
ShotArg(c) == [kind |-> "Shot", shot |-> c]

\* an argument that is a Metadata holding the keys given
MetadataArg(keys) == [kind |-> "Metadata", keys |-> keys]

\* the metadata kept by Masterclip.__init__ and by Subclip.__init__: a new
\* Metadata for None, the Metadata given, ValueError for anything else
KeptMetadata(metadata) ==
    IF metadata.kind = "None" THEN [ok |-> TRUE, keys |-> {}]
    ELSE IF metadata.kind = "Metadata" THEN [ok |-> TRUE, keys |-> metadata.keys]
    ELSE [ok |-> FALSE, raised |-> "ValueError"]

\* Masterclip.__init__ once the metadata is settled
MasterclipWith(name, timecode, kept) ==
    IF ~kept.ok THEN kept
    ELSE [ok |-> TRUE,
          shot |-> [kind |-> "Masterclip", name |-> name, timecode |-> timecode,
                    metadata |-> kept.keys]]

\* Masterclip(name, timecode, metadata), timecode a TimecodeRange
Masterclip(name, timecode, metadata) == MasterclipWith(name, timecode, KeptMetadata(metadata))

\* Subclip.__init__ once timecode in parent.timecode is known: ValueError
\* when it is False (AttributeError from the message when timecode has no
\* start), then the metadata
SubclipChecked(parent, timecode, inside, kept) ==
    IF ~inside.ok THEN inside
    ELSE IF ~inside.value
    THEN [ok |-> FALSE,
          raised |-> IF timecode.kind = "TimecodeRange" THEN "ValueError" ELSE "AttributeError"]
    ELSE IF ~kept.ok THEN kept
    ELSE [ok |-> TRUE,
          shot |-> [kind |-> "Subclip", parent |-> parent, timecode |-> timecode.range,
                    metadata |-> kept.keys]]

\* Subclip(parent, timecode, metadata)
Subclip(parent, timecode, metadata) ==
    SubclipChecked(parent, timecode, range_contains(parent.timecode, timecode),
                   KeptMetadata(metadata))

RECURSIVE shot_name(_)
\* Masterclip.name and Subclip.name
shot_name(c) == IF c.kind = "Masterclip" THEN c.name ELSE shot_name(c.parent)

RECURSIVE masterclip(_)
\* Subclip.masterclip, and the clip itself for a Masterclip
masterclip(c) == IF c.kind = "Masterclip" THEN c ELSE masterclip(c.parent)

\* Masterclip.subclip and Subclip.subclip
subclip(c, timecode) ==
    IF c.kind = "Masterclip" THEN Subclip(c, timecode, NoneArg)
    ELSE Subclip(c.parent, timecode, NoneArg)

\* Shot.__contains__
shot_contains(c, other) ==
    IF other.kind # "Shot" THEN [ok |-> TRUE, value |-> FALSE]
    ELSE py_and([ok |-> TRUE, value |-> shot_name(c) = shot_name(other.shot)],
                range_contains(c.timecode, RangeArg(other.shot.timecode)))

(***************************************************************************)
(* Lines of text.                                                          *)
(***************************************************************************)
\* a line: lead = it starts with whitespace; toks = its tokens; brk = p > 0
\* when the whitespace after token p is a form feed
Line(lead, toks, brk) == [lead |-> lead, toks |-> toks, brk |-> brk]

\* the empty line (what rstrip('\n') leaves of a bare newline)
EmptyLine == Line(FALSE, <<>>, 0)

\* not line: the line is the empty string
IsEmpty(l) == l.toks = <<>> /\ ~l.lead

\* not line.strip(): the line holds whitespace only
IsBlank(l) == l.toks = <<>>

\* "\n".join(lines).splitlines(keepends=False): str.splitlines also breaks
\* a line at a form feed
SplitLine(l) ==
    IF l.brk > 0 /\ l.brk < Len(l.toks)
    THEN <<Line(l.lead, SubSeq(l.toks, 1, l.brk), 0),
           Line(FALSE, SubSeq(l.toks, l.brk + 1, Len(l.toks)), 0)>>
    ELSE <<Line(l.lead, l.toks, 0)>>

splitlines(buffer) == Flatten([i \in 1..Len(buffer) |-> SplitLine(buffer[i])])

(***************************************************************************)
(* Track and SourceReel.                                                   *)
(***************************************************************************)
\* Track.__init__: Track.Type(name[0].upper()) raises ValueError for any
\* letter but V and A; the index is int(name[1:]), or 1 for a bare letter
Track(name) ==
    IF UpperChar(name[1]) \notin {"V", "A"}
    THEN [ok |-> FALSE, raised |-> "ValueError"]
    ELSE [ok |-> TRUE,
          track |-> [type |-> UpperChar(name[1]),
                     index |-> IF Len(name) > 1 THEN ToInt(Tail(name)) ELSE 1]]

\* Track.name
TrackName(t) == IF t.index > 1 THEN <<t.type>> \o IntStr(t.index) ELSE <<t.type>>

\* an argument that is a Track
TrackArg(t) == [kind |-> "Track", track |-> t]

\* Track.__eq__
track_eq(t, other) == IF other.kind # "Track" THEN FALSE ELSE TrackName(t) = TrackName(other.track)

\* Track.__lt__
track_lt(t, other) == IF other.kind # "Track" THEN FALSE ELSE t.index < other.track.index

\* the comparisons functools.total_ordering derives from __lt__ and __eq__:
\* a > b is not a < b and a != b, a <= b is a < b or a == b, a >= b is
\* not a < b
track_gt(t, other) == ~track_lt(t, other) /\ ~track_eq(t, other)

track_le(t, other) == track_lt(t, other) \/ track_eq(t, other)

track_ge(t, other) == ~track_lt(t, other)

\* a < b, a == b, a > b, a <= b, a >= b for a Track a
track_compare(op, t, other) ==
    CASE op = "<" -> track_lt(t, other)
      [] op = "==" -> track_eq(t, other)
      [] op = ">" -> track_gt(t, other)
      [] op = "<=" -> track_le(t, other)
      [] op = ">=" -> track_ge(t, other)

\* BlackSource.validate / AuxSource.validate / TapeSource.validate
BlackValidate(reel_name) == Upper(reel_name) = <<"B", "L">>

AuxValidate(reel_name) == Upper(reel_name) = <<"A", "X">>

TapeValidate(reel_name) == Len(reel_name) > 0

\* SourceReel.from_string with the tape recogniser tried first
SourceReel_from_string_TapeFirst(reel_name) ==
    IF TapeValidate(reel_name) THEN [ok |-> TRUE, reel |-> [kind |-> "Tape", name |-> reel_name]]
    ELSE IF BlackValidate(reel_name) THEN [ok |-> TRUE, reel |-> [kind |-> "Black", name |-> <<"B", "L">>]]
    ELSE IF AuxValidate(reel_name) THEN [ok |-> TRUE, reel |-> [kind |-> "Aux", name |-> <<"A", "X">>]]
    ELSE [ok |-> FALSE, raised |-> "ValueError"]

\* SourceReel.from_string: Black, then Aux, then Tape
SourceReel_from_string(reel_name) ==
    IF BlackValidate(reel_name) THEN [ok |-> TRUE, reel |-> [kind |-> "Black", name |-> <<"B", "L">>]]
    ELSE IF AuxValidate(reel_name) THEN [ok |-> TRUE, reel |-> [kind |-> "Aux", name |-> <<"A", "X">>]]
    ELSE IF TapeValidate(reel_name) THEN [ok |-> TRUE, reel |-> [kind |-> "Tape", name |-> reel_name]]
    ELSE [ok |-> FALSE, raised |-> "ValueError"]

(***************************************************************************)
(* Standard form statements.                                               *)
(***************************************************************************)
NON_DROP_FRAME == "NON-DROP FRAME"
DROP_FRAME == "DROP FRAME"

\* \d{2}:\d{2}:\d{2}:\d{2}
PatTimecode(t) ==
    /\ Len(t) = 11
    /\ \A i \in {1, 2, 4, 5, 7, 8, 10, 11} : IsDigit(t[i])
    /\ \A i \in {3, 6, 9} : t[i] = ":"

\* A\d*|B|V, case-insensitive
PatTrack(t) ==
    \/ Len(t) >= 1 /\ UpperChar(t[1]) = "A" /\ AllDigits(Tail(t))
    \/ Upper(t) = <<"B">>
    \/ Upper(t) = <<"V">>

\* CutStatement.PAT_EVENT
CutPattern(l) ==
    /\ ~l.lead
    /\ Len(l.toks) = 8
    /\ IsNumeric(l.toks[1])
    /\ PatTrack(l.toks[3])
    /\ Upper(l.toks[4]) = <<"C">>
    /\ \A i \in 5..8 : PatTimecode(l.toks[i])

\* DissolveStatement.PAT_EVENT
DissolvePattern(l) ==
    /\ ~l.lead
    /\ Len(l.toks) = 9
    /\ IsNumeric(l.toks[1])
    /\ PatTrack(l.toks[3])
    /\ Upper(l.toks[4]) = <<"D">>
    /\ IsNumeric(l.toks[5])
    /\ \A i \in 6..9 : PatTimecode(l.toks[i])

\* WipeStatement.PAT_EVENT
WipePattern(l) ==
    /\ ~l.lead
    /\ Len(l.toks) = 9
    /\ IsNumeric(l.toks[1])
    /\ PatTrack(l.toks[3])
    /\ Len(l.toks[4]) >= 2 /\ UpperChar(l.toks[4][1]) = "W" /\ IsNumeric(Tail(l.toks[4]))
    /\ IsNumeric(l.toks[5])
    /\ \A i \in 6..9 : PatTimecode(l.toks[i])

\* cls.PAT_EVENT.match(line) for the statement class named variant
PatternOf(variant, l) ==
    CASE variant = "Cut" -> CutPattern(l)
      [] variant = "Dissolve" -> DissolvePattern(l)
      [] variant = "Wipe" -> WipePattern(l)

\* the values StandardFormStatement.__init__ receives, or the first
\* exception among those of Track, the two TimecodeRange and SourceReel
shared_elements(l, track, timecode_source, timecode_record, reel) ==
    IF ~track.ok THEN [ok |-> FALSE, raised |-> track.raised, at |-> "Track"]
    ELSE IF ~timecode_source.ok THEN timecode_source
    ELSE IF ~timecode_record.ok THEN timecode_record
    ELSE IF ~reel.ok THEN [ok |-> FALSE, raised |-> reel.raised, at |-> "SourceReel"]
    ELSE [ok |-> TRUE,
          event_number |-> ToInt(l.toks[1]),
          source |-> reel.reel,
          tracks |-> {track.track},
          timecode_source |-> timecode_source.range,
          timecode_record |-> timecode_record.range]

\* StandardFormStatement._parse_shared_elements followed by
\* StandardFormStatement.__init__; tc is the position of the source-in token
parse_shared_elements(l, tc) ==
    shared_elements(l,
                    Track(l.toks[3]),
                    TimecodeRangeFromText(l.toks[tc], l.toks[tc + 1]),
                    TimecodeRangeFromText(l.toks[tc + 2], l.toks[tc + 3]),
                    SourceReel_from_string(l.toks[2]))

\* a statement; text is the line it was parsed from (the re.Match passed to
\* parse_from_pattern), kept for reference only
Statement(variant, sh, dissolve_length, wipe_length, wipe_id, l) ==
    [variant |-> variant,
     event_number |-> sh.event_number,
     source |-> sh.source,
     tracks |-> sh.tracks,
     timecode_source |-> sh.timecode_source,
     timecode_record |-> sh.timecode_record,
     dissolve_length |-> dissolve_length,
     wipe_length |-> wipe_length,
     wipe_id |-> wipe_id,
     fcm |-> NON_DROP_FRAME,
     text |-> l]

\* cls(...) on the shared elements sh, unless getting them raised
StatementOf(variant, sh, dissolve_length, wipe_length, wipe_id, l) ==
    IF ~sh.ok THEN sh
    ELSE [ok |-> TRUE,
          statement |-> Statement(variant, sh, dissolve_length, wipe_length, wipe_id, l)]

\* CutStatement.parse_from_pattern
CutParse(l) == StatementOf("Cut", parse_shared_elements(l, 5), None, None, None, l)

\* DissolveStatement.parse_from_pattern
DissolveParse(l) ==
    StatementOf("Dissolve", parse_shared_elements(l, 6), ToInt(l.toks[5]), None, None, l)

\* WipeStatement.parse_from_pattern
WipeParse(l) ==
    StatementOf("Wipe", parse_shared_elements(l, 6), None, ToInt(l.toks[5]),
                ToInt(Tail(l.toks[4])), l)

\* what Event.from_string does with the outcome of parse_from_pattern
Identified(parsed) ==
    IF parsed.ok THEN [ok |-> TRUE, is_statement |-> TRUE, statement |-> parsed.statement]
    ELSE [ok |-> FALSE, raised |-> parsed.raised, at |-> parsed.at]

\* Event._identify_line over StandardFormStatement.all_statement_types (the
\* subclasses in the order of their definition: Cut, Dissolve, Wipe): the
\* first statement type whose pattern matches parses the line (and may
\* raise); a line no pattern matches is a comment
identify_line(l) ==
    IF CutPattern(l) THEN Identified(CutParse(l))
    ELSE IF DissolvePattern(l) THEN Identified(DissolveParse(l))
    ELSE IF WipePattern(l) THEN Identified(WipeParse(l))
    ELSE [ok |-> TRUE, is_statement |-> FALSE, comment |-> l]

(***************************************************************************)
(* Event.                                                                  *)
(***************************************************************************)
\* Event.__init__ without the check of the frame count modes
EventInit_NoCheck(sfs, comments) ==
    [ok |-> TRUE,
     event |-> [sfs |-> sfs, nfs |-> <<>>, comments |-> comments, fcm |-> NON_DROP_FRAME]]

\* Event.__init__: the statements must have exactly one frame count mode
EventInit(sfs, comments) ==
    LET fcm == {sfs[i].fcm : i \in 1..Len(sfs)}
    IN  IF Cardinality(fcm) # 1 THEN [ok |-> FALSE, raised |-> "ValueError", at |-> "Event"]
        ELSE [ok |-> TRUE,
              event |-> [sfs |-> sfs, nfs |-> <<>>, comments |-> comments,
                         fcm |-> CHOOSE f \in fcm : TRUE]]

RECURSIVE from_string_loop(_, _, _, _)
\* one pass of the loop of Event.from_string, on line k, identified as parsed
from_string_step(lines, k, sfs, comments, parsed) ==
    IF ~parsed.ok
    THEN [ok |-> FALSE, raised |-> parsed.raised, at |-> parsed.at, k |-> k]
    ELSE from_string_loop(lines, k + 1,
                          IF parsed.is_statement THEN Append(sfs, parsed.statement) ELSE sfs,
                          IF parsed.is_statement THEN comments ELSE Append(comments, parsed.comment))

\* the loop of Event.from_string over the lines of the event text; k counts
\* the lines consumed, so that a failure can be traced to its line
from_string_loop(lines, k, sfs, comments) ==
    IF k > Len(lines) THEN [ok |-> TRUE, sfs |-> sfs, comments |-> comments]
    ELSE IF IsBlank(lines[k]) THEN from_string_loop(lines, k + 1, sfs, comments)
    ELSE from_string_step(lines, k, sfs, comments, identify_line(lines[k]))

\* the end of Event.from_string: cls(standard_statements=..., comments=...);
\* k = 0 marks a failure that no single line caused
EventOfLines(r, e) ==
    IF ~r.ok THEN r
    ELSE IF ~e.ok THEN [ok |-> FALSE, raised |-> e.raised, at |-> e.at, k |-> 0]
    ELSE e

\* the statements and comments parsed so far, or none after a failure
ParsedOf(r, field) == IF r.ok THEN r[field] ELSE <<>>

\* Event.from_string on the lines r stands for
EventOfParsed(r) == EventOfLines(r, EventInit(ParsedOf(r, "sfs"), ParsedOf(r, "comments")))

\* Event.from_string("\n".join(event_buffer))
Event_from_string(event_buffer) ==
    EventOfParsed(from_string_loop(splitlines(event_buffer), 1, <<>>, <<>>))

(***************************************************************************)
(* Edl.                                                                    *)
(***************************************************************************)
TitlePrefix == <<"t", "i", "t", "l", "e", ":">>

\* Edl._parse_title_from_line comparing the prefix without lower()
parse_title_from_line_CaseSensitive(l) ==
    IF l.lead \/ Len(l.toks) = 0 \/ Len(l.toks[1]) < Len(TitlePrefix)
       \/ SubSeq(l.toks[1], 1, Len(TitlePrefix)) # Upper(TitlePrefix)
    THEN [ok |-> FALSE, raised |-> "ValueError", at |-> "Title"]
    ELSE LET rest == SubSeq(l.toks[1], Len(TitlePrefix) + 1, Len(l.toks[1]))
             words == IF rest = <<>> THEN Tail(l.toks) ELSE <<rest>> \o Tail(l.toks)
             brk == IF rest = <<>> /\ l.brk > 0 THEN l.brk - 1 ELSE l.brk
         IN  IF words = <<>> THEN [ok |-> FALSE, raised |-> "ValueError", at |-> "Title"]
             ELSE [ok |-> TRUE, title |-> Line(FALSE, words, IF brk < Len(words) THEN brk ELSE 0)]

\* Edl._parse_title_from_line: the line must start with "title:" in any
\* letter case; the title is the stripped rest of the line (its words; brk
\* keeps a form feed between them)
parse_title_from_line(l) ==
    IF l.lead \/ Len(l.toks) = 0 \/ Len(l.toks[1]) < Len(TitlePrefix)
       \/ Lower(SubSeq(l.toks[1], 1, Len(TitlePrefix))) # TitlePrefix
    THEN [ok |-> FALSE, raised |-> "ValueError", at |-> "Title"]
    ELSE LET rest == SubSeq(l.toks[1], Len(TitlePrefix) + 1, Len(l.toks[1]))
             words == IF rest = <<>> THEN Tail(l.toks) ELSE <<rest>> \o Tail(l.toks)
             brk == IF rest = <<>> /\ l.brk > 0 THEN l.brk - 1 ELSE l.brk
         IN  IF words = <<>> THEN [ok |-> FALSE, raised |-> "ValueError", at |-> "Title"]
             ELSE [ok |-> TRUE, title |-> Line(FALSE, words, IF brk < Len(words) THEN brk ELSE 0)]

\* Edl._is_begin_new_event, for a line with at least one token
is_begin_new_event(l, index) ==
    IF index = 0 THEN FALSE
    ELSE LET first_token == l.toks[1]
         IN  IF Lower(first_token) \in {<<"F", "C", "M", ":">>, <<"S", "P", "L", "I", "T", ":">>}
             THEN TRUE
             ELSE IF IsNumeric(first_token) /\ ToInt(first_token) # index THEN TRUE
             ELSE FALSE

\* Edl.__init__ with the title and fcm setters: the title must not be
\* empty and must be a single line for str.splitlines
EdlInit(t, fcm, evs) ==
    IF t.toks = <<>> \/ t.brk > 0 THEN [ok |-> FALSE, raised |-> "ValueError", at |-> "Edl"]
    ELSE [ok |-> TRUE, edl |-> [title |-> t, fcm |-> fcm, events |-> evs]]

\* the timecodes at the end of a statement line
StatementTimecodes(st) ==
    <<formatted(st.timecode_source.start), formatted(RangeEnd(st.timecode_source)),
      formatted(st.timecode_record.start), formatted(RangeEnd(st.timecode_record))>>

\* the first three fields of a statement line: the event number filled to
\* three digits, the reel name, the names of the tracks
StatementHead(st) ==
    <<ZFill(IntStr(IF st.event_number # None THEN st.event_number ELSE 1), 3),
      st.source.name,
      TrackName(CHOOSE t \in st.tracks : TRUE)>>

\* CutStatement.__str__ / DissolveStatement.__str__ / WipeStatement.__str__
StatementStr(st) ==
    CASE st.variant = "Cut" ->
             Line(FALSE, StatementHead(st) \o << <<"C">> >> \o StatementTimecodes(st), 0)
      [] st.variant = "Dissolve" ->
             Line(FALSE, StatementHead(st) \o << <<"D">>, ZFill(IntStr(st.dissolve_length), 3) >>
                         \o StatementTimecodes(st), 0)
      [] st.variant = "Wipe" ->
             Line(FALSE, StatementHead(st)
                         \o << <<"W">> \o ZFill(IntStr(st.wipe_id), 3), ZFill(IntStr(st.wipe_length), 3) >>
                         \o StatementTimecodes(st), 0)

\* print(event): Event.__str__ joins the statements, the (empty) note
\* statements and the comments with a newline between the three parts
EventStr(e) ==
    [i \in 1..Len(e.sfs) |-> StatementStr(e.sfs[i])]
    \o <<EmptyLine>>
    \o (IF e.comments = <<>> THEN <<EmptyLine>> ELSE e.comments)

\* Fcm.value as the words of a header line
FcmWords(fcm) ==
    IF fcm = DROP_FRAME THEN << <<"D", "R", "O", "P">>, <<"F", "R", "A", "M", "E">> >>
    ELSE << <<"N", "O", "N", "-", "D", "R", "O", "P">>, <<"F", "R", "A", "M", "E">> >>

\* Edl.write: the lines written to the stream
EdlWrite(e) ==
    <<Line(FALSE, << <<"T", "I", "T", "L", "E", ":">> >> \o e.title.toks, 0),
      Line(FALSE, << <<"F", "C", "M", ":">> >> \o FcmWords(e.fcm), 0)>>
    \o Flatten([i \in 1..Len(e.events) |-> EventStr(e.events[i])])

(***************************************************************************)
(* The input lines the model draws its files from.                         *)
(***************************************************************************)
\* a title line
TitleSample ==
    Line(FALSE, <<<<"T", "I", "T", "L", "E", ":">>,
            <<"S", "A", "M", "P", "L", "E">>>>, 0)

\* a title line with a lower-case prefix and no space after it
TitleLower ==
    Line(FALSE, <<<<"t", "i", "t", "l", "e", ":", "T">>>>, 0)

\* a first line without the TITLE: prefix
TitleMissing ==
    Line(FALSE, <<<<"S", "A", "M", "P", "L", "E">>>>, 0)

\* a title line with nothing after the prefix
TitleNoText ==
    Line(FALSE, <<<<"T", "I", "T", "L", "E", ":">>>>, 0)

\* a frame count mode line
FcmDrop ==
    Line(FALSE, <<<<"F", "C", "M", ":">>,
            <<"D", "R", "O", "P">>,
            <<"F", "R", "A", "M", "E">>>>, 0)

\* the cut of the sample EDL
Cut001 ==
    Line(FALSE, <<<<"0", "0", "1">>,
            <<"T", "A", "P", "E", "0", "0", "1">>,
            <<"V">>,
            <<"C">>,
            <<"0", "1", ":", "0", "0", ":", "0", "0", ":", "0", "0">>,
            <<"0", "1", ":", "0", "0", ":", "1", "0", ":", "0", "0">>,
            <<"0", "1", ":", "0", "0", ":", "0", "0", ":", "0", "0">>,
            <<"0", "1", ":", "0", "0", ":", "1", "0", ":", "0", "0">>>>, 0)

\* a cut with event number 0, from the aux source, on the audio track
Cut000 ==
    Line(FALSE, <<<<"0", "0", "0">>,
            <<"A", "X">>,
            <<"A">>,
            <<"C">>,
            <<"0", "0", ":", "5", "9", ":", "5", "0", ":", "0", "0">>,
            <<"0", "1", ":", "0", "0", ":", "0", "0", ":", "0", "0">>,
            <<"0", "0", ":", "5", "9", ":", "5", "0", ":", "0", "0">>,
            <<"0", "1", ":", "0", "0", ":", "0", "0", ":", "0", "0">>>>, 0)

\* a dissolve, written in lower case, from black
Dissolve002 ==
    Line(FALSE, <<<<"0", "0", "2">>,
            <<"b", "l">>,
            <<"a", "2">>,
            <<"d">>,
            <<"0", "2", "4">>,
            <<"0", "1", ":", "0", "0", ":", "0", "0", ":", "0", "0">>,
            <<"0", "1", ":", "0", "0", ":", "1", "0", ":", "0", "0">>,
            <<"0", "1", ":", "0", "0", ":", "1", "0", ":", "0", "0">>,
            <<"0", "1", ":", "0", "0", ":", "2", "0", ":", "0", "0">>>>, 0)

\* a dissolve whose record out is its record in
DissolveEmptyRecord ==
    Line(FALSE, <<<<"0", "0", "3">>,
            <<"T", "A", "P", "E", "0", "0", "1">>,
            <<"V">>,
            <<"D">>,
            <<"0", "2", "4">>,
            <<"0", "1", ":", "0", "0", ":", "0", "0", ":", "0", "0">>,
            <<"0", "1", ":", "0", "0", ":", "1", "0", ":", "0", "0">>,
            <<"0", "1", ":", "0", "0", ":", "0", "0", ":", "0", "0">>,
            <<"0", "1", ":", "0", "0", ":", "0", "0", ":", "0", "0">>>>, 0)

\* a wipe on track A0 whose record out has a frame field above the rate
Wipe002 ==
    Line(FALSE, <<<<"0", "0", "2">>,
            <<"T", "A", "P", "E", "0", "0", "1">>,
            <<"A", "0">>,
            <<"W", "0", "0", "1">>,
            <<"0", "1", "0">>,
            <<"0", "1", ":", "0", "0", ":", "0", "0", ":", "0", "0">>,
            <<"0", "1", ":", "0", "0", ":", "1", "0", ":", "0", "0">>,
            <<"0", "1", ":", "0", "0", ":", "1", "0", ":", "0", "0">>,
            <<"0", "1", ":", "0", "0", ":", "2", "0", ":", "2", "9">>>>, 0)

\* a cut on track B
CutTrackB ==
    Line(FALSE, <<<<"0", "0", "1">>,
            <<"T", "A", "P", "E", "0", "0", "1">>,
            <<"B">>,
            <<"C">>,
            <<"0", "1", ":", "0", "0", ":", "0", "0", ":", "0", "0">>,
            <<"0", "1", ":", "0", "0", ":", "1", "0", ":", "0", "0">>,
            <<"0", "1", ":", "0", "0", ":", "0", "0", ":", "0", "0">>,
            <<"0", "1", ":", "0", "0", ":", "1", "0", ":", "0", "0">>>>, 0)

\* a cut whose source out is before its source in
CutReversed ==
    Line(FALSE, <<<<"0", "0", "2">>,
            <<"T", "A", "P", "E", "0", "0", "1">>,
            <<"V">>,
            <<"C">>,
            <<"0", "1", ":", "0", "0", ":", "1", "0", ":", "0", "0">>,
            <<"0", "1", ":", "0", "0", ":", "0", "0", ":", "0", "0">>,
            <<"0", "1", ":", "0", "0", ":", "0", "0", ":", "0", "0">>,
            <<"0", "1", ":", "0", "0", ":", "1", "0", ":", "0", "0">>>>, 0)

\* a comment with a form feed between LOC and NOTE
NoteFormFeed ==
    Line(FALSE, <<<<"*">>,
            <<"L", "O", "C">>,
            <<"N", "O", "T", "E">>>>, 2)

\* a line of blank space
BlankLine == Line(TRUE, <<>>, 0)

TitleLines == {TitleSample, TitleLower, TitleMissing, TitleNoText, EmptyLine}

BodyLines ==
    {TitleSample, FcmDrop, Cut001, Cut000, Dissolve002, Wipe002, CutTrackB, CutReversed,
     DissolveEmptyRecord, NoteFormFeed, EmptyLine, BlankLine}

\* the files of the model: nothing at all, or a first line and up to
\* MaxBody lines after it
IsFile(f) ==
    \/ f = <<>>
    \/ \E t \in TitleLines : \E n \in 0..MaxBody : \E b \in [1..n -> BodyLines] : f = <<t>> \o b

(***************************************************************************)
(* Edl.from_file as a state machine, one step per line read, followed by   *)
(* Edl.write and a parse of the written text.                              *)
(***************************************************************************)
VARIABLES
    file,           \* the lines of the stream being parsed
    pc,             \* "title", "lines", "done" (an Edl was returned), "failed"
    line_num,       \* 1-based number of the next line of the file
    title,          \* the parsed title
    events,         \* events
    event_buffer,   \* event_buffer
    current_index,  \* current_index
    edl,            \* the Edl returned
    error,          \* the exception raised
    round,          \* how many times the Edl was written and parsed again
    prev,           \* the Edl that was written to produce the file
    buffer_nums,    \* line numbers of the lines of event_buffer
    groups,         \* for each event, the buffered lines it was built from
    built,          \* the result of building an Event directly
    this,           \* a Timecode object, for the calls made on Timecode
    made,           \* the call of Timecode(...) that made it
    last            \* the last call made on Timecode and what it returned

edl_vars == <<file, pc, line_num, title, events, event_buffer, current_index, edl,
              error, round, prev, buffer_nums, groups, built>>

timecode_vars == <<this, made, last>>

vars == <<edl_vars, timecode_vars>>

\* no Timecode object, no call
NoTimecode == [framenumber |-> 0, rate |-> 0, mode |-> NoMode]
NoCall == [op |-> "none"]

NoTitle == Line(FALSE, <<>>, 0)
NoEdl == [title |-> NoTitle, fcm |-> NON_DROP_FRAME, events |-> <<>>]
NoError == [raised |-> "none", at |-> "none", line |-> 0, cause |-> {}]
NotBuilt == [ok |-> FALSE, raised |-> "none", at |-> "none"]

\* the exception that leaves from_file: line is the line number its message
\* names (0 when it names none), cause the numbers of the lines whose
\* content made the parse fail
Raise(raised, at, line, cause) ==
    /\ pc' = "failed"
    /\ error' = [raised |-> raised, at |-> at, line |-> line, cause |-> cause]
    /\ edl' = NoEdl

Init ==
    /\ IsFile(file)
    /\ pc = "title"
    /\ line_num = 1
    /\ title = NoTitle
    /\ events = <<>>
    /\ event_buffer = <<>>
    /\ current_index = 0
    /\ edl = NoEdl
    /\ error = NoError
    /\ round = 0
    /\ prev = NoEdl
    /\ buffer_nums = <<>>
    /\ groups = <<>>
    /\ built = NotBuilt
    /\ this = NoTimecode
    /\ made = NoCall
    /\ last = NoCall

\* for each line of splitlines(buffer), the index of the buffered line it
\* comes from
SplitOrigin(buffer) ==
    Flatten([i \in 1..Len(buffer) |-> [j \in 1..Len(SplitLine(buffer[i])) |-> i]])

\* the line numbers that made Event.from_string(buffer) fail with r
FlushCause(buffer, nums, r) ==
    IF r.k = 0 THEN {nums[i] : i \in 1..Len(nums)}
    ELSE {nums[SplitOrigin(buffer)[r.k]]}

\* title = cls._parse_title_from_line(file_edl.readline())
ParseTitle ==
    /\ pc = "title"
    /\ LET r == parse_title_from_line(IF file = <<>> THEN EmptyLine ELSE file[1])
       IN  IF r.ok
           THEN /\ title' = r.title
                /\ pc' = "lines"
                /\ line_num' = 2
                /\ UNCHANGED <<edl, error>>
           ELSE /\ Raise(r.raised, r.at, 0, {1})
                /\ UNCHANGED <<title, line_num>>
    /\ UNCHANGED <<file, events, event_buffer, current_index, round, prev, buffer_nums,
                   groups, built>>
    /\ UNCHANGED timecode_vars

\* an iteration of the loop on an empty line: continue
SkipEmptyLine ==
    /\ pc = "lines"
    /\ line_num <= Len(file)
    /\ IsEmpty(file[line_num])
    /\ line_num' = line_num + 1
    /\ UNCHANGED <<file, pc, title, events, event_buffer, current_index, edl, error,
                   round, prev, buffer_nums, groups, built>>
    /\ UNCHANGED timecode_vars

\* an iteration of the loop on any other line: flush the buffer into an
\* Event when the line begins a new event, note the event number, buffer
\* the line; any exception is raised again as ValueError("Line n: ...")
ProcessLine ==
    /\ pc = "lines"
    /\ line_num <= Len(file)
    /\ ~IsEmpty(file[line_num])
    /\ LET line_edl == file[line_num]
           flush == event_buffer # <<>> /\ is_begin_new_event(line_edl, current_index)
           r == Event_from_string(event_buffer)
       IN  IF IsBlank(line_edl)
           THEN \* line.split()[0] raises IndexError
                /\ Raise("ValueError", "Line", line_num, {line_num})
                /\ UNCHANGED <<line_num, events, event_buffer, current_index, buffer_nums, groups>>
           ELSE IF flush /\ ~r.ok
           THEN /\ Raise("ValueError", r.at, line_num, FlushCause(event_buffer, buffer_nums, r))
                /\ UNCHANGED <<line_num, events, event_buffer, current_index, buffer_nums, groups>>
           ELSE /\ events' = IF flush THEN Append(events, r.event) ELSE events
                /\ groups' = IF flush THEN Append(groups, [lines |-> event_buffer, nums |-> buffer_nums])
                             ELSE groups
                /\ event_buffer' = Append(IF flush THEN <<>> ELSE event_buffer, line_edl)
                /\ buffer_nums' = Append(IF flush THEN <<>> ELSE buffer_nums, line_num)
                /\ current_index' = IF IsNumeric(line_edl.toks[1]) THEN ToInt(line_edl.toks[1])
                                    ELSE IF flush THEN 0
                                    ELSE current_index
                /\ line_num' = line_num + 1
                /\ UNCHANGED <<pc, edl, error>>
    /\ UNCHANGED <<file, title, round, prev, built>>
    /\ UNCHANGED timecode_vars

\* after the loop: the lines left in the buffer make the last Event, and
\* the Edl is returned; exceptions raised here are not caught
Finish ==
    /\ pc = "lines"
    /\ line_num > Len(file)
    /\ LET r == Event_from_string(event_buffer)
           evs == IF event_buffer # <<>> THEN Append(events, r.event) ELSE events
           e == EdlInit(title, NON_DROP_FRAME, evs)
       IN  IF event_buffer # <<>> /\ ~r.ok
           THEN /\ Raise(r.raised, r.at, 0, FlushCause(event_buffer, buffer_nums, r))
                /\ UNCHANGED <<events, groups>>
           ELSE IF ~e.ok
           THEN /\ Raise(e.raised, e.at, 0, {1})
                /\ UNCHANGED <<events, groups>>
           ELSE /\ events' = evs
                /\ groups' = IF event_buffer # <<>>
                             THEN Append(groups, [lines |-> event_buffer, nums |-> buffer_nums])
                             ELSE groups
                /\ edl' = e.edl
                /\ pc' = "done"
                /\ UNCHANGED error
    /\ UNCHANGED <<file, line_num, title, event_buffer, current_index, round, prev,
                   buffer_nums, built>>
    /\ UNCHANGED timecode_vars

\* Edl.write to a stream, then Edl.from_file on what was written
WriteAndReopen ==
    /\ pc = "done"
    /\ round < MaxRounds
    /\ file' = EdlWrite(edl)
    /\ prev' = edl
    /\ round' = round + 1
    /\ pc' = "title"
    /\ line_num' = 1
    /\ title' = NoTitle
    /\ events' = <<>>
    /\ event_buffer' = <<>>
    /\ current_index' = 0
    /\ edl' = NoEdl
    /\ buffer_nums' = <<>>
    /\ groups' = <<>>
    /\ built' = NotBuilt
    /\ UNCHANGED error
    /\ UNCHANGED timecode_vars

\* Event(standard_statements=...) built directly from the first n
\* statements of the parsed Edl
BuildEvent ==
    /\ pc = "done"
    /\ built = NotBuilt
    /\ \E n \in 0..2 :
           LET all == Flatten([i \in 1..Len(events) |-> events[i].sfs])
           IN  /\ n <= Len(all)
               /\ built' = EventInit(SubSeq(all, 1, n), <<>>)
    /\ UNCHANGED <<file, pc, line_num, title, events, event_buffer, current_index, edl,
                   error, round, prev, buffer_nums, groups>>
    /\ UNCHANGED timecode_vars

Next ==
    \/ ParseTitle
    \/ SkipEmptyLine
    \/ ProcessLine
    \/ Finish
    \/ WriteAndReopen
    \/ BuildEvent

Spec == Init /\ [][Next]_vars

(***************************************************************************)
(* Timecode as a state machine: an object is made, then its methods and    *)
(* operators are called on it with operands drawn from small sets.         *)
(***************************************************************************)
\* a canonical label
TcOneHour == <<"0", "1", ":", "0", "0", ":", "0", "0", ":", "0", "0">>

\* a canonical label of the first minute
TcMinuteEnd == <<"0", "0", ":", "0", "0", ":", "5", "9", ":", "0", "1">>

\* the first label of minute 1, which drop-frame counting at 30 skips
TcDropped0 == <<"0", "0", ":", "0", "1", ":", "0", "0", ";", "0", "0">>

\* the second label it skips
TcDropped1 == <<"0", "0", ":", "0", "1", ":", "0", "0", ";", "0", "1">>

\* the first label of minute 1 that drop-frame counting at 30 shows
TcFirstValid == <<"0", "0", ":", "0", "1", ":", "0", "0", ";", "0", "2">>

\* a late label
TcLate == <<"1", "8", ":", "1", "6", ":", "2", "2", ";", "1", "1">>

\* seconds and frames alone, with a sign
TcShortNegative == <<"-", "1", ":", "0", "2">>

\* five groups: not a timecode
TcFiveGroups == <<"1", ":", "2", ":", "3", ":", "4", ":", "5">>

\* letters: not a timecode
TcLetters == <<"0", "x", "1", "0">>

TimecodeTexts ==
    {TcOneHour, TcMinuteEnd, TcDropped0, TcDropped1, TcFirstValid, TcLate, TcShortNegative,
     TcFiveGroups, TcLetters}

\* frame numbers given as integers
FrameInputs == {-1800, -1, 0, 1, 2, 5, 7, 60, 1800}

\* the first argument of Timecode(...)
TimecodeInputs ==
    {TextArg(t) : t \in TimecodeTexts} \cup {IntArg(n) : n \in FrameInputs}
    \cup {FloatArg(250), NoneArg}

\* rates, in hundredths of a frame per second: 0.5, 1.5, 24, 29.97, 30, 60
RateInputs == {50, 150, 2400, 2997, 3000, 6000}

ModeInputs == {NDF, DF, NoMode}

\* whole rates passed to resample
ResampleRates == {None, 24, 25, 30}

\* the Timecode objects used as right operands
OperandTimecodes ==
    {[framenumber |-> n, rate |-> r, mode |-> m] :
        n \in {2, 30}, r \in {24, 30}, m \in {NDF}}
    \cup {[framenumber |-> n, rate |-> 30, mode |-> DF] : n \in {2, 30}}

\* the right operands of + - * / and ==
Operands ==
    {TimecodeArg(tc) : tc \in OperandTimecodes}
    \cup {IntArg(0), IntArg(2), IntArg(-1), FloatArg(250), NoneArg,
          TextArg(TcShortNegative), TextArg(TcLetters)}

TimecodeInit ==
    /\ this = NoTimecode
    /\ made = NoCall
    /\ last = NoCall
    /\ file = <<>>
    /\ pc = "title"
    /\ line_num = 1
    /\ title = NoTitle
    /\ events = <<>>
    /\ event_buffer = <<>>
    /\ current_index = 0
    /\ edl = NoEdl
    /\ error = NoError
    /\ round = 0
    /\ prev = NoEdl
    /\ buffer_nums = <<>>
    /\ groups = <<>>
    /\ built = NotBuilt

\* the record of a call of Timecode(timecode, rate, mode) that returned r
Constructed(timecode, rate100, mode, r) ==
    [op |-> "Timecode", timecode |-> timecode, rate100 |-> rate100, mode |-> mode, result |-> r]

\* what Construct leaves behind
ConstructWith(call) ==
    /\ last' = call
    /\ made' = IF call.result.ok THEN call ELSE made
    /\ this' = IF call.result.ok THEN call.result.tc ELSE this

\* A Timecode is never changed once made (no method assigns to its fields),
\* so what a call returns depends on the object and the operands alone:
\* a behaviour makes one object and makes one call on it (Reparse follows
\* Format).  Fresh: the object was just made
Fresh == last.op = "Timecode" /\ last.result.ok

\* this = Timecode(timecode, rate, mode)
Construct ==
    /\ this = NoTimecode
    /\ \E timecode \in TimecodeInputs, rate100 \in RateInputs, mode \in ModeInputs :
           ConstructWith(Constructed(timecode, rate100, mode, Timecode(timecode, rate100, mode)))
    /\ UNCHANGED edl_vars

\* str(this)
Format ==
    /\ Fresh
    /\ last' = [op |-> "formatted", self |-> this, value |-> formatted(this)]
    /\ UNCHANGED <<this, made, edl_vars>>

\* Timecode(str(this), this.rate, this.mode)
Reparse ==
    /\ last.op = "formatted"
    /\ last' = [op |-> "reparse", self |-> this, text |-> last.value,
                result |-> TimecodeAt(TextArg(last.value), this.rate, this.mode)]
    /\ UNCHANGED <<this, made, edl_vars>>

\* str(Timecode(n, rate, mode)) for n = this.framenumber and the frame
\* number after it
Enumerate ==
    /\ Fresh
    /\ last' = [op |-> "enumerate", self |-> this,
                labels |-> [i \in 1..2 |->
                               formatted([this EXCEPT !.framenumber = this.framenumber + i - 1])]]
    /\ UNCHANGED <<this, made, edl_vars>>

\* this + other, this - other, this * other, this / other
Arith ==
    /\ Fresh
    /\ \E op \in {"+", "-", "*", "/"}, other \in Operands :
           last' = [op |-> op, self |-> this, other |-> other, result |-> arith(op, this, other)]
    /\ UNCHANGED <<this, made, edl_vars>>

\* this.resample(rate, mode)
Resample ==
    /\ Fresh
    /\ \E rate \in ResampleRates, mode \in ModeInputs :
           last' = [op |-> "resample", self |-> this, rate |-> rate, mode |-> mode,
                    result |-> resample(this, rate, mode)]
    /\ UNCHANGED <<this, made, edl_vars>>

\* this == other
Equals ==
    /\ Fresh
    /\ \E other \in Operands \cup {TimecodeArg(this), IntArg(this.framenumber)} :
           last' = [op |-> "==", self |-> this, other |-> other, result |-> eq(this, other)]
    /\ UNCHANGED <<this, made, edl_vars>>

\* {this, b, c}
MakeSet ==
    /\ Fresh
    /\ \E b \in OperandTimecodes \cup {this}, c \in OperandTimecodes \cup {this} :
           last' = [op |-> "set", items |-> <<this, b, c>>, value |-> PySet(<<this, b, c>>)]
    /\ UNCHANGED <<this, made, edl_vars>>

\* this < other, this > other, this <= other, this >= other
Compare ==
    /\ Fresh
    /\ \E op \in {"<", ">", "<=", ">="},
          other \in Operands \cup {TimecodeArg(this), IntArg(this.framenumber)} :
           last' = [op |-> op, self |-> this, other |-> other, result |-> compare(op, this, other)]
    /\ UNCHANGED <<this, made, edl_vars>>

\* sorted([this, b, c])
Sort ==
    /\ Fresh
    /\ \E b \in OperandTimecodes, c \in OperandTimecodes :
           last' = [op |-> "sorted", items |-> <<this, b, c>>, result |-> PySorted(<<this, b, c>>)]
    /\ UNCHANGED <<this, made, edl_vars>>

TimecodeNext ==
    \/ Construct
    \/ Format
    \/ Reparse
    \/ Enumerate
    \/ Arith
    \/ Resample
    \/ Equals
    \/ MakeSet
    \/ Compare
    \/ Sort

TimecodeSpec == TimecodeInit /\ [][TimecodeNext]_vars

(***************************************************************************)
(* TimecodeRange as a state machine: a range is made from arguments drawn  *)
(* from small sets, then one of its methods is called.  A TimecodeRange is *)
(* never changed once made.                                                *)
(***************************************************************************)
\* frame numbers of the starts, ends and durations
RangeFrames == {-1, 0, 1, 2, 24}

RangeTimecodes ==
    {[framenumber |-> n, rate |-> rm[1], mode |-> rm[2]] :
        n \in RangeFrames, rm \in {<<24, NDF>>, <<30, NDF>>, <<30, DF>>}}

\* what is passed for start, end or duration: a Timecode, None (not
\* given), or an integer
RangeArgs == {TimecodeArg(tc) : tc \in RangeTimecodes} \cup {NoneArg, IntArg(5)}

\* the ranges tried as members of a range, besides the range itself
MemberRanges ==
    {[start |-> [framenumber |-> n, rate |-> rm[1], mode |-> rm[2]],
      duration |-> [framenumber |-> d, rate |-> rm[1], mode |-> rm[2]]] :
        n \in {0, 1}, d \in {1, 2}, rm \in {<<24, NDF>>, <<30, NDF>>, <<30, DF>>}}

\* whole rates passed to TimecodeRange.resample
RangeResampleRates == {None, 12, 24, 30}

NoRange == [start |-> NoTimecode, duration |-> NoTimecode]

RangeInit ==
    /\ this = NoRange
    /\ made = NoCall
    /\ last = NoCall
    /\ file = <<>>
    /\ pc = "title"
    /\ line_num = 1
    /\ title = NoTitle
    /\ events = <<>>
    /\ event_buffer = <<>>
    /\ current_index = 0
    /\ edl = NoEdl
    /\ error = NoError
    /\ round = 0
    /\ prev = NoEdl
    /\ buffer_nums = <<>>
    /\ groups = <<>>
    /\ built = NotBuilt

\* the record of a call of TimecodeRange(start=, end=, duration=) that
\* returned r
RangeConstructed(start, end_, duration, r) ==
    [op |-> "TimecodeRange", start |-> start, end_ |-> end_, duration |-> duration, result |-> r]

\* what RangeConstruct leaves behind
RangeConstructWith(call) ==
    /\ last' = call
    /\ made' = IF call.result.ok THEN call ELSE made
    /\ this' = IF call.result.ok THEN call.result.range ELSE this

\* the range was just made
RangeFresh == last.op = "TimecodeRange" /\ last.result.ok

\* this = TimecodeRange(start=, end=, duration=), the one construction of
\* a behaviour
RangeConstruct ==
    /\ this = NoRange
    /\ last = NoCall
    /\ \E start \in RangeArgs, end_ \in RangeArgs, duration \in RangeArgs :
           RangeConstructWith(RangeConstructed(start, end_, duration,
                                               TimecodeRange(start, end_, duration)))
    /\ UNCHANGED edl_vars

\* the ranges made again from this.start, this.end and this.duration, two
\* at a time and all three
RangeRebuild ==
    /\ RangeFresh
    /\ last' = [op |-> "rebuild", self |-> this,
                start_duration |-> TimecodeRange(TimecodeArg(this.start), NoneArg,
                                                 TimecodeArg(this.duration)),
                start_end |-> TimecodeRange(TimecodeArg(this.start),
                                            TimecodeArg(range_end(this).tc), NoneArg),
                end_duration |-> TimecodeRange(NoneArg, TimecodeArg(range_end(this).tc),
                                               TimecodeArg(this.duration)),
                all_three |-> TimecodeRange(TimecodeArg(this.start),
                                            TimecodeArg(range_end(this).tc),
                                            TimecodeArg(this.duration))]
    /\ UNCHANGED <<this, made, edl_vars>>

\* list(this) twice, and len(this)
RangeIterate ==
    /\ RangeFresh
    /\ last' = [op |-> "iter", self |-> this, first |-> range_iter(this),
                second |-> range_iter(this), len |-> range_len(this)]
    /\ UNCHANGED <<this, made, edl_vars>>

\* other in this
RangeContains ==
    /\ RangeFresh
    /\ \E other \in {TimecodeArg(tc) : tc \in RangeTimecodes}
                    \cup {RangeArg(r) : r \in MemberRanges \cup {this}}
                    \cup {NoneArg, IntArg(5)} :
           last' = [op |-> "in", self |-> this, other |-> other,
                    result |-> range_contains(this, other)]
    /\ UNCHANGED <<this, made, edl_vars>>

\* this.resample(rate, mode)
RangeResample ==
    /\ RangeFresh
    /\ \E rate \in RangeResampleRates, mode \in ModeInputs :
           last' = [op |-> "resample", self |-> this, rate |-> rate, mode |-> mode,
                    result |-> range_resample(this, rate, mode)]
    /\ UNCHANGED <<this, made, edl_vars>>

RangeNext ==
    \/ RangeConstruct
    \/ RangeRebuild
    \/ RangeIterate
    \/ RangeContains
    \/ RangeResample

RangeSpec == RangeInit /\ [][RangeNext]_vars

(***************************************************************************)
(* Track as a state machine: two Tracks are made from names, then compared *)
(***************************************************************************)
\* the names given to Track(...)
TrackNames ==
    {<<"V">>, <<"A">>, <<"a">>, <<"A", "1">>, <<"A", "2">>, <<"A", "1", "0">>, <<"V", "2">>,
     <<"V", "3">>, <<"A", "0">>, <<"B">>}

NoTrack == [type |-> "", index |-> 0]

TrackInit ==
    /\ this = <<NoTrack, NoTrack>>
    /\ made = NoCall
    /\ last = NoCall
    /\ file = <<>>
    /\ pc = "title"
    /\ line_num = 1
    /\ title = NoTitle
    /\ events = <<>>
    /\ event_buffer = <<>>
    /\ current_index = 0
    /\ edl = NoEdl
    /\ error = NoError
    /\ round = 0
    /\ prev = NoEdl
    /\ buffer_nums = <<>>
    /\ groups = <<>>
    /\ built = NotBuilt

\* the record of the calls Track(a) and Track(b)
TracksConstructed(a, b, ra, rb) ==
    [op |-> "Track", names |-> <<a, b>>, results |-> <<ra, rb>>, ok |-> ra.ok /\ rb.ok]

\* what TrackConstruct leaves behind
TracksConstructWith(call) ==
    /\ last' = call
    /\ made' = IF call.ok THEN call ELSE made
    /\ this' = IF call.ok THEN <<call.results[1].track, call.results[2].track>> ELSE this

\* this = (Track(a), Track(b)), the one construction of a behaviour
TrackConstruct ==
    /\ last = NoCall
    /\ \E a \in TrackNames, b \in TrackNames :
           TracksConstructWith(TracksConstructed(a, b, Track(a), Track(b)))
    /\ UNCHANGED edl_vars

\* this[1] op this[2] and this[2] op this[1]
TrackCompare ==
    /\ last.op = "Track"
    /\ last.ok
    /\ \E op \in {"<", "==", ">", "<=", ">="} :
           last' = [op |-> op, self |-> this[1], other |-> TrackArg(this[2]),
                    value |-> track_compare(op, this[1], TrackArg(this[2])),
                    reverse |-> track_compare(op, this[2], TrackArg(this[1]))]
    /\ UNCHANGED <<this, made, edl_vars>>

\* this[1] op x for an x that is not a Track
TrackCompareOther ==
    /\ last.op = "Track"
    /\ last.ok
    /\ \E op \in {"<", "=="}, x \in {IntArg(5), NoneArg} :
           last' = [op |-> op, self |-> this[1], other |-> x,
                    value |-> track_compare(op, this[1], x)]
    /\ UNCHANGED <<this, made, edl_vars>>

TrackNext ==
    \/ TrackConstruct
    \/ TrackCompare
    \/ TrackCompareOther

TrackSpec == TrackInit /\ [][TrackNext]_vars

(***************************************************************************)
(* Shots as a state machine: a Masterclip is made, then subclipped and     *)
(* tested for membership; this is the clip the last subclip call returned  *)
(***************************************************************************)
\* reel names
ShotNames == {"A001", "B002"}

\* the ranges of clips and of subclips: inside one another, overlapping,
\* and of another rate
ShotRanges ==
    {[start |-> [framenumber |-> n, rate |-> r, mode |-> NDF],
      duration |-> [framenumber |-> d, rate |-> r, mode |-> NDF]] :
        n \in {0, 10}, d \in {5, 100}, r \in {24, 30}}

\* the metadata arguments: none, a Metadata, something else
ShotMetadata == {NoneArg, MetadataArg({"Camroll"}), IntArg(5)}

NoShot == [kind |-> "None"]

ShotInit ==
    /\ this = NoShot
    /\ made = NoCall
    /\ last = NoCall
    /\ file = <<>>
    /\ pc = "title"
    /\ line_num = 1
    /\ title = NoTitle
    /\ events = <<>>
    /\ event_buffer = <<>>
    /\ current_index = 0
    /\ edl = NoEdl
    /\ error = NoError
    /\ round = 0
    /\ prev = NoEdl
    /\ buffer_nums = <<>>
    /\ groups = <<>>
    /\ built = NotBuilt

\* what a call that returns a clip leaves behind: the clip returned
\* becomes this
ShotReturned(call) ==
    /\ last' = call
    /\ made' = IF call.result.ok THEN call ELSE made
    /\ this' = IF call.result.ok THEN call.result.shot ELSE this

\* this = Masterclip(name, timecode, metadata), the one Masterclip of a
\* behaviour
MasterclipConstruct ==
    /\ last = NoCall
    /\ \E name \in ShotNames, timecode \in ShotRanges, metadata \in ShotMetadata :
           ShotReturned([op |-> "Masterclip", name |-> name, timecode |-> timecode,
                         metadata |-> metadata,
                         result |-> Masterclip(name, timecode, metadata)])
    /\ UNCHANGED edl_vars

\* this = this.subclip(timecode)
ShotSubclip ==
    /\ this # NoShot
    /\ \E timecode \in ShotRanges :
           ShotReturned([op |-> "subclip", self |-> this, timecode |-> RangeArg(timecode),
                         result |-> subclip(this, RangeArg(timecode))])
    /\ UNCHANGED edl_vars

\* this = Subclip(this, timecode, metadata)
SubclipConstruct ==
    /\ this # NoShot
    /\ \E timecode \in {RangeArg(r) : r \in ShotRanges}
                       \cup {TimecodeArg(r.start) : r \in ShotRanges} \cup {IntArg(5)},
          metadata \in ShotMetadata :
           ShotReturned([op |-> "Subclip", self |-> this, timecode |-> timecode,
                         metadata |-> metadata,
                         result |-> Subclip(this, timecode, metadata)])
    /\ UNCHANGED edl_vars

\* other in this, for this itself, its parent and masterclip, other
\* Masterclips and things that are not Shots
ShotContains ==
    /\ this # NoShot
    /\ \E other \in {ShotArg(this), ShotArg(masterclip(this)), IntArg(5), NoneArg}
                    \cup {ShotArg(Masterclip(n, r, NoneArg).shot) :
                              n \in ShotNames, r \in ShotRanges} :
           last' = [op |-> "in", self |-> this, other |-> other,
                    result |-> shot_contains(this, other)]
    /\ UNCHANGED <<this, made, edl_vars>>

ShotNext ==
    \/ MasterclipConstruct
    \/ ShotSubclip
    \/ SubclipConstruct
    \/ ShotContains

ShotSpec == ShotInit /\ [][ShotNext]_vars

(***************************************************************************)
(* Properties.                                                             *)
(***************************************************************************)
\* the statements of the events built so far
AllStatements ==
    UNION {{events[i].sfs[j] : j \in DOMAIN events[i].sfs} : i \in DOMAIN events}

\* the line starts with a numeric token
StartsNumeric(l) == l.toks # <<>> /\ IsNumeric(l.toks[1])

\* the line starts with the token FCM: or SPLIT:
IsControlLine(l) ==
    l.toks # <<>> /\ l.toks[1] \in {<<"F", "C", "M", ":">>, <<"S", "P", "L", "I", "T", ":">>}

\* the lines an event holds: the text of its statements and its comments
EventLines(e) == {e.sfs[j].text : j \in DOMAIN e.sfs} \cup {e.comments[j] : j \in DOMAIN e.comments}

\* some statement grammar matches the line
MatchesStatement(l) == CutPattern(l) \/ DissolvePattern(l) \/ WipePattern(l)

\* C1: in every Event of a parsed Edl, all lines that start with a numeric
\* token carry the same event number (a numeric line that differs from the
\* current event number, 0 included, was flushed away from the lines before it)
C1_OneEventNumberPerEvent ==
    \A i \in DOMAIN events :
        \A a, b \in EventLines(events[i]) :
            (StartsNumeric(a) /\ StartsNumeric(b)) => ToInt(a.toks[1]) = ToInt(b.toks[1])

\* C2: an FCM: or SPLIT: line never joins the buffered lines of an event
\* whose event number is known: no group of buffered lines holds a control
\* line after a line that carries an event number
NoControlLineAfterNumber(lines) ==
    \A i, j \in DOMAIN lines :
        (i < j /\ StartsNumeric(lines[i]) /\ ToInt(lines[i].toks[1]) # 0) => ~IsControlLine(lines[j])

C2_ControlLineStartsNewEvent ==
    /\ NoControlLineAfterNumber(event_buffer)
    /\ \A g \in DOMAIN groups : NoControlLineAfterNumber(groups[g].lines)

\* C3: the statements of every Event are, in order, the buffered non-blank
\* lines that match a statement grammar, its comments are, in order and
\* verbatim, the other non-blank lines, and once the parse is done the
\* groups of buffered lines are together the non-empty lines after the title
NonBlank(l) == ~IsBlank(l)

IsComment(l) == ~IsBlank(l) /\ ~MatchesStatement(l)

IsStatementLine(l) == ~IsBlank(l) /\ MatchesStatement(l)

C3_LinesClassifiedInOrder ==
    /\ \A i \in DOMAIN events :
           /\ [j \in DOMAIN events[i].sfs |-> events[i].sfs[j].text]
                  = SelectSeq(groups[i].lines, IsStatementLine)
           /\ events[i].comments = SelectSeq(groups[i].lines, IsComment)
    /\ pc = "done" =>
           Flatten([i \in DOMAIN groups |-> groups[i].lines]) = SelectSeq(Tail(file), NonBlank)

\* the value of the two digits of t at position i
TwoDigits(t, i) == 10 * DigitVal(t[i]) + DigitVal(t[i + 1])

\* the frame number of the label hh:mm:ss:ff at 24 frames per second
LabelFrames(t) ==
    ((TwoDigits(t, 1) * 60 + TwoDigits(t, 4)) * 60 + TwoDigits(t, 7)) * 24 + TwoDigits(t, 10)

\* the range [in, out) of frames of a TimecodeRange
RangeIn(r) == r.start.framenumber

RangeOut(r) == r.start.framenumber + r.duration.framenumber

\* the source the claim gives a reel token
ExpectedSource(t) ==
    IF Upper(t) = <<"B", "L">> THEN [kind |-> "Black", name |-> <<"B", "L">>]
    ELSE IF Upper(t) = <<"A", "X">> THEN [kind |-> "Aux", name |-> <<"A", "X">>]
    ELSE [kind |-> "Tape", name |-> t]

\* C4: every statement is of the one variant whose grammar matches its
\* line, and has the line's event number, its single track, the source range
\* [src-in, src-out), the record range [rec-in, rec-out), the dissolve
\* length or wipe id and length, and the source Black, Aux or Tape(token);
\* the sample line gives a Cut from Tape(TAPE001) on {V} recorded at
\* 01:00:00:00..01:00:10:00
C4_StatementFieldsExact ==
    \A st \in AllStatements :
        LET l == st.text
            tc == IF st.variant = "Cut" THEN 5 ELSE 6
        IN  /\ Cardinality({v \in {"Cut", "Dissolve", "Wipe"} : PatternOf(v, l)}) = 1
            /\ PatternOf(st.variant, l)
            /\ ZFill(IntStr(st.event_number), Len(l.toks[1])) = l.toks[1]
            /\ Cardinality(st.tracks) = 1
            /\ \A t \in st.tracks : t.type = UpperChar(l.toks[3][1])
            /\ st.source = ExpectedSource(l.toks[2])
            /\ RangeIn(st.timecode_source) = LabelFrames(l.toks[tc])
            /\ RangeOut(st.timecode_source) = LabelFrames(l.toks[tc + 1])
            /\ RangeIn(st.timecode_record) = LabelFrames(l.toks[tc + 2])
            /\ RangeOut(st.timecode_record) = LabelFrames(l.toks[tc + 3])
            /\ st.variant = "Cut" =>
                   st.dissolve_length = None /\ st.wipe_length = None /\ st.wipe_id = None
            /\ st.variant = "Dissolve" =>
                   /\ ZFill(IntStr(st.dissolve_length), Len(l.toks[5])) = l.toks[5]
                   /\ st.wipe_length = None /\ st.wipe_id = None
            /\ st.variant = "Wipe" =>
                   /\ ZFill(IntStr(st.wipe_length), Len(l.toks[5])) = l.toks[5]
                   /\ ZFill(IntStr(st.wipe_id), Len(l.toks[4]) - 1) = Tail(l.toks[4])
                   /\ st.dissolve_length = None
            /\ l = Cut001 =>
                   /\ st.variant = "Cut"
                   /\ st.event_number = 1
                   /\ st.source = [kind |-> "Tape", name |-> <<"T", "A", "P", "E", "0", "0", "1">>]
                   /\ st.tracks = {[type |-> "V", index |-> 1]}
                   /\ RangeIn(st.timecode_record) = 86400
                   /\ RangeOut(st.timecode_record) = 86640

\* C4 witness: an Edl was returned that holds a Cut, a Dissolve from black
\* and a Wipe
C4_Witness ==
    /\ pc = "done"
    /\ \E a, b, c \in AllStatements :
           /\ a.variant = "Cut" /\ a.text = Cut001
           /\ b.variant = "Dissolve" /\ b.source.kind = "Black"
           /\ c.variant = "Wipe"

\* two statements agree field by field
SameStatement(a, b) ==
    /\ a.variant = b.variant
    /\ a.event_number = b.event_number
    /\ a.source.name = b.source.name
    /\ {TrackName(t) : t \in a.tracks} = {TrackName(t) : t \in b.tracks}
    /\ a.timecode_source = b.timecode_source
    /\ a.timecode_record = b.timecode_record
    /\ a.dissolve_length = b.dissolve_length
    /\ a.wipe_length = b.wipe_length
    /\ a.wipe_id = b.wipe_id

SameEvent(a, b) ==
    /\ Len(a.sfs) = Len(b.sfs)
    /\ \A j \in DOMAIN a.sfs : SameStatement(a.sfs[j], b.sfs[j])
    /\ a.comments = b.comments

SameEdl(a, b) ==
    /\ a.title = b.title
    /\ a.fcm = b.fcm
    /\ Len(a.events) = Len(b.events)
    /\ \A i \in DOMAIN a.events : SameEvent(a.events[i], b.events[i])

\* C5: parsing the text written from a parsed Edl succeeds and gives an Edl
\* with the same title, frame count mode, events, statements and comments,
\* however often the Edl is written and parsed again
C5_WriteThenParseIsSame ==
    round >= 1 => (pc # "failed" /\ (pc = "done" => SameEdl(edl, prev)))

\* C6: a failed parse names the input line whose content made it fail, and
\* returns no Edl
C6_ErrorNamesOffendingLine ==
    pc = "failed" => (error.line \in error.cause /\ edl = NoEdl)

\* C7: every Event, parsed or built directly, has at least one statement
\* and one frame count mode shared by all its statements, and no Event was
\* built from a group of lines none of which matches a statement grammar
HasStatementsOfOneMode(e) ==
    /\ Len(e.sfs) >= 1
    /\ \A j \in DOMAIN e.sfs : e.sfs[j].fcm = e.fcm

IsTitleLine(l) ==
    /\ ~l.lead
    /\ l.toks # <<>>
    /\ Len(l.toks[1]) >= 6
    /\ Lower(SubSeq(l.toks[1], 1, 6)) = <<"t", "i", "t", "l", "e", ":">>
    /\ Len(Flatten(l.toks)) > 6

\* the title step took line l as the title line
TitleTakenFrom(l) ==
    /\ error.at # "Title"
    /\ Flatten(l.toks) = SubSeq(l.toks[1], 1, 6) \o Flatten(title.toks)
    /\ Len(title.toks) \in {Len(l.toks), Len(l.toks) - 1}
    /\ pc = "done" => edl.title = title

TitleRejected == pc = "failed" /\ error.at = "Title"

\* C8 as claimed: the first non-empty line is the title line, blank lines
\* before it are skipped
C8_FirstNonEmptyLineIsTitle ==
    pc # "title" =>
        IF \E k \in DOMAIN file : ~IsBlank(file[k])
        THEN LET k == CHOOSE k \in DOMAIN file :
                          ~IsBlank(file[k]) /\ \A j \in 1..(k - 1) : IsBlank(file[j])
             IN  IF IsTitleLine(file[k]) THEN TitleTakenFrom(file[k]) ELSE TitleRejected
        ELSE TitleRejected

\* C8 amended: the first line of the input, blank or not, is the title
\* line: the parse fails at the title when the first line is missing, blank,
\* lacks the prefix TITLE: (in any letter case) or has nothing after it, and
\* otherwise the title is the text after the prefix
C8_FirstLineIsTitle ==
    pc # "title" =>
        IF file # <<>> /\ IsTitleLine(file[1]) THEN TitleTakenFrom(file[1]) ELSE TitleRejected

\* C8 witness: an Edl was returned whose title T was read from the first
\* line title:T
C8_Witness ==
    /\ pc = "done"
    /\ round = 0
    /\ file[1] = TitleLower
    /\ edl.title.toks = << <<"T">> >>

\* C9: when the line after the title is FCM: DROP FRAME (FCM: NON-DROP
\* FRAME) the Edl returned has fcm DROP_FRAME (NON_DROP_FRAME)
C9_FcmHeaderIsRead ==
    (pc = "done" /\ Len(file) >= 2) =>
        /\ file[2].toks = << <<"F", "C", "M", ":">> >> \o FcmWords(DROP_FRAME) => edl.fcm = DROP_FRAME
        /\ file[2].toks = << <<"F", "C", "M", ":">> >> \o FcmWords(NON_DROP_FRAME) => edl.fcm = NON_DROP_FRAME

\* C10: none of the track tokens A, A<n>, B, V makes the parse fail, and
\* the Track of a statement has a positive index, 1 when the token has no number
C10_TrackTokensAccepted ==
    /\ pc = "failed" => error.at # "Track"
    /\ \A st \in AllStatements :
           \A t \in st.tracks :
               /\ t.index >= 1
               /\ Len(st.text.toks[3]) = 1 => t.index = 1

(***************************************************************************)
(* Timecode: the claims, stated on the call last made                      *)
(***************************************************************************)
\* a text without its sign
LabelBody(t) == IF t # <<>> /\ t[1] \in {"+", "-"} THEN Tail(t) ELSE t

\* an optional sign, then one to four groups of digits, each optionally
\* preceded by ':' or ';'
IsTimecodeText(t) ==
    /\ LabelBody(t) # <<>>
    /\ \A i \in 1..Len(LabelBody(t)) : IsDigit(LabelBody(t)[i]) \/ LabelBody(t)[i] \in {":", ";"}
    /\ IsDigit(LabelBody(t)[Len(LabelBody(t))])
    /\ \A i \in 1..(Len(LabelBody(t)) - 1) :
           ~IsDigit(LabelBody(t)[i]) => IsDigit(LabelBody(t)[i + 1])
    /\ Cardinality({i \in 1..Len(LabelBody(t)) :
                       IsDigit(LabelBody(t)[i]) /\ (i = 1 \/ ~IsDigit(LabelBody(t)[i - 1]))})
           \in 1..4

RECURSIVE FieldsRight(_)
\* the groups of digits of a body as numbers, the rightmost first
FieldsRight(b) ==
    LET seps == {i \in 1..Len(b) : ~IsDigit(b[i])}
        start == IF seps = {} THEN 0 ELSE CHOOSE i \in seps : \A j \in seps : j <= i
    IN  <<ToInt(SubSeq(b, start + 1, Len(b)))>>
        \o (IF start <= 1 THEN <<>> ELSE FieldsRight(SubSeq(b, 1, start - 1)))

\* sign * (h*3600*r + m*60*r + s*r + f), the groups read right to left as
\* frames, seconds, minutes, hours, the missing ones being zero
LabelFrameCount(t, r) ==
    LET f == FieldsRight(LabelBody(t)) \o <<0, 0, 0>>
    IN  (IF t[1] = "-" THEN -1 ELSE 1)
        * (f[4] * 3600 * r + f[3] * 60 * r + f[2] * r + f[1])

\* C11: in non-drop-frame mode at rate r, Timecode(text) for a text of the
\* grammar has frame number sign * (h*3600*r + m*60*r + s*r + f); for any
\* other text the construction fails with InvalidTimecode
C11_TextParsing ==
    (/\ last.op = "Timecode"
     /\ last.timecode.kind = "str"
     /\ last.mode # DF
     /\ RoundHalfEven(last.rate100, 100) >= 1) =>
        IF IsTimecodeText(last.timecode.text)
        THEN /\ last.result.ok
             /\ last.result.tc.framenumber
                    = LabelFrameCount(last.timecode.text, RoundHalfEven(last.rate100, 100))
        ELSE /\ ~last.result.ok
             /\ last.result.raised = "InvalidTimecode"

\* C11 witness: -1:02 at 24 frames per second was read as frame -26
C11_Witness ==
    /\ last.op = "Timecode"
    /\ last.timecode = TextArg(TcShortNegative)
    /\ last.rate100 = 2400
    /\ last.mode = NDF
    /\ last.result.ok
    /\ last.result.tc.framenumber = -26

\* a label hh:mm:ss:ff of two digits each with mm < 60, ss < 60, ff < r
IsCanonicalLabel(t, r) ==
    /\ Len(t) = 11
    /\ \A i \in {3, 6, 9} : t[i] = ":"
    /\ \A i \in {1, 2, 4, 5, 7, 8, 10, 11} : IsDigit(t[i])
    /\ ToInt(SubSeq(t, 4, 5)) < 60
    /\ ToInt(SubSeq(t, 7, 8)) < 60
    /\ ToInt(SubSeq(t, 10, 11)) < r

\* C12: in non-drop-frame mode the text of Timecode(label) is the label,
\* for a canonical label, and Timecode(str(Timecode(n))) has frame number n
\* for n >= 0
C12_NdfRoundTrip ==
    /\ (/\ last.op = "formatted"
        /\ last.self.mode = NDF
        /\ made.timecode.kind = "str"
        /\ IsCanonicalLabel(made.timecode.text, last.self.rate)) =>
           last.value = made.timecode.text
    /\ (/\ last.op = "reparse"
        /\ last.self.mode = NDF
        /\ last.self.framenumber >= 0) =>
           /\ last.result.ok
           /\ last.result.tc.framenumber = last.self.framenumber

\* C12 witness: 01:00:00:00 at 30 was formatted and the text read back as
\* frame 108000
C12_Witness ==
    /\ last.op = "reparse"
    /\ made.timecode = TextArg(TcOneHour)
    /\ last.self = [framenumber |-> 108000, rate |-> 30, mode |-> NDF]
    /\ last.text = TcOneHour
    /\ last.result.ok
    /\ last.result.tc.framenumber = 108000

\* a label hh:mm:ss;ff of two digits each with mm < 60, ss < 60, ff < r
IsDropFrameText(t, r) ==
    /\ Len(t) = 11
    /\ t[3] = ":" /\ t[6] = ":" /\ t[9] = ";"
    /\ \A i \in {1, 2, 4, 5, 7, 8, 10, 11} : IsDigit(t[i])
    /\ ToInt(SubSeq(t, 4, 5)) < 60
    /\ ToInt(SubSeq(t, 7, 8)) < 60
    /\ ToInt(SubSeq(t, 10, 11)) < r

\* the hours, minutes, seconds and frames a label shows
LabelFields(t) ==
    <<ToInt(SubSeq(t, 1, 2)), ToInt(SubSeq(t, 4, 5)), ToInt(SubSeq(t, 7, 8)),
      ToInt(SubSeq(t, 10, 11))>>

\* a label that drop-frame counting skips: one of the first 2 * r / 30
\* frames of a minute not divisible by 10
IsDroppedLabel(f, r) == f[2] % 10 # 0 /\ f[3] = 0 /\ f[4] < (2 * r) \div 30

\* C13: at 30 frames per second in drop-frame mode the text of
\* Timecode(label) is the label when the label is a valid drop-frame label,
\* and the next valid label (frames 02 of the same minute) when it is a
\* dropped one
C13_DropFrameLabelsAt30 ==
    (/\ last.op = "formatted"
     /\ last.self.mode = DF
     /\ last.self.rate = 30
     /\ made.timecode.kind = "str"
     /\ IsDropFrameText(made.timecode.text, 30)) =>
        last.value = IF IsDroppedLabel(LabelFields(made.timecode.text), 30)
                     THEN [made.timecode.text EXCEPT ![10] = "0", ![11] = "2"]
                     ELSE made.timecode.text

\* the fields of the label that follows f in drop-frame counting at rate r
DropFrameSuccessor(f, r) ==
    LET n == ((f[1] * 60 + f[2]) * 60 + f[3]) * r + f[4] + 1
        g == <<n \div (3600 * r), (n \div (60 * r)) % 60, (n \div r) % 60, n % r>>
    IN  IF IsDroppedLabel(g, r) THEN [g EXCEPT ![4] = (2 * r) \div 30] ELSE g

\* C14: in drop-frame mode the labels of the frame numbers n >= 0 and
\* n + 1 are never dropped labels, the second is the valid label that
\* follows the first (so they differ and increase), and frame 0 is
\* 00:00:00;00
C14_DropFrameSequence ==
    (/\ last.op = "enumerate"
     /\ last.self.mode = DF
     /\ last.self.framenumber >= 0) =>
        /\ \A i \in 1..2 : ~IsDroppedLabel(LabelFields(last.labels[i]), last.self.rate)
        /\ LabelFields(last.labels[2])
               = DropFrameSuccessor(LabelFields(last.labels[1]), last.self.rate)
        /\ last.labels[1] # last.labels[2]
        /\ last.self.framenumber = 0 => LabelFields(last.labels[1]) = <<0, 0, 0, 0>>

\* C15: in either mode the text of Timecode(-n) is '-' followed by the
\* text of Timecode(n) for n > 0, and the text of Timecode(0) has no sign
C15_SignSymmetry ==
    last.op = "formatted" =>
        /\ last.self.framenumber > 0 =>
               formatted([last.self EXCEPT !.framenumber = -last.self.framenumber])
                   = <<"-">> \o last.value
        /\ last.self.framenumber < 0 =>
               last.value
                   = <<"-">> \o formatted([last.self EXCEPT !.framenumber = -last.self.framenumber])
        /\ last.self.framenumber = 0 => last.value[1] # "-"

\* an integer frame number, an integer rate of at least 1, drop-frame mode
\* only at a rate divisible by 30
IsValidTimecode(tc) ==
    /\ tc.framenumber \in Int
    /\ tc.rate \in Int
    /\ tc.rate >= 1
    /\ tc.mode \in {NDF, DF}
    /\ tc.mode = DF => tc.rate % 30 = 0

\* C16: every Timecode made from text, an integer or a float, or returned
\* by + - * / or resample, is valid; Timecode(...) with a rounded rate below
\* 1, or in drop-frame mode at a rate not divisible by 30, fails with
\* InvalidTimecode and makes no object
C16_ValidityInvariant ==
    /\ this # NoTimecode => IsValidTimecode(this)
    /\ (/\ last.op \in {"Timecode", "reparse", "+", "-", "*", "/", "resample"}
        /\ last.result.ok) => IsValidTimecode(last.result.tc)
    /\ (/\ last.op = "Timecode"
        /\ \/ RoundHalfEven(last.rate100, 100) < 1
           \/ last.mode = DF /\ RoundHalfEven(last.rate100, 100) % 30 # 0) =>
           /\ ~last.result.ok
           /\ last.result.raised = "InvalidTimecode"
           /\ this = NoTimecode

\* C16 witness: Timecode(0, 24, DF) failed with InvalidTimecode and no
\* object was made
C16_Witness ==
    /\ last.op = "Timecode"
    /\ last.timecode = IntArg(0)
    /\ last.rate100 = 2400
    /\ last.mode = DF
    /\ ~last.result.ok
    /\ last.result.raised = "InvalidTimecode"
    /\ this = NoTimecode

\* b brought to a's rate and mode: resampled when it is a Timecode, made
\* at a's rate and mode when it is text or an integer
Coerced(a, b) ==
    IF b.kind = "Timecode" THEN resample(b.tc, a.rate, a.mode) ELSE TimecodeAt(b, a.rate, a.mode)

\* a.frame op b.frame, the quotient of a division being a nearest integer
IsResultOf(op, n, a, b) ==
    CASE op = "+" -> n = a + b
      [] op = "-" -> n = a - b
      [] op = "*" -> n = a * b
      [] op = "/" -> 2 * Abs(n * b - a) <= Abs(b)

\* C17: for a right operand b that is a Timecode, text or an integer and
\* can be brought to a's rate and mode as b' (b'.frame not 0 for /),
\* a op b is a Timecode at a's rate and mode with frame number
\* a.frame op b'.frame, rounded for /; a is left as it was made; and
\* (a / b) * b == a when b'.frame divides a.frame
C17_Arithmetic ==
    (/\ last.op \in {"+", "-", "*", "/"}
     /\ last.other.kind \in {"Timecode", "str", "int"}
     /\ Coerced(last.self, last.other).ok
     /\ last.op = "/" => Coerced(last.self, last.other).tc.framenumber # 0) =>
        /\ last.result.ok
        /\ last.result.tc.rate = last.self.rate
        /\ last.result.tc.mode = last.self.mode
        /\ IsResultOf(last.op, last.result.tc.framenumber, last.self.framenumber,
                      Coerced(last.self, last.other).tc.framenumber)
        /\ last.self = this
        /\ this = made.result.tc
        /\ (/\ last.op = "/"
            /\ last.self.framenumber % Abs(Coerced(last.self, last.other).tc.framenumber) = 0) =>
               /\ arith("*", last.result.tc, last.other).ok
               /\ eq(arith("*", last.result.tc, last.other).tc, TimecodeArg(last.self)).value

\* C17 witness: Timecode(60, 24) / Timecode(30, 30), the operand resampled
\* to 24 frames at 24, gave frame 2 (2.5 rounded) at 24
C17_Witness ==
    /\ last.op = "/"
    /\ last.self = [framenumber |-> 60, rate |-> 24, mode |-> NDF]
    /\ last.other = TimecodeArg([framenumber |-> 30, rate |-> 30, mode |-> NDF])
    /\ last.result.ok
    /\ last.result.tc = [framenumber |-> 2, rate |-> 24, mode |-> NDF]

\* the rate and mode a call of resample asks for
NewRate(call) == IF call.rate = None THEN call.self.rate ELSE call.rate

NewMode(call) == IF call.mode = NoMode THEN call.self.mode ELSE call.mode

\* C18: between non-drop-frame rates resample returns the very same
\* Timecode when the rate is unchanged, and otherwise a Timecode at the
\* new rate with frame number round(frame * new_rate / old_rate)
C18_ResampleNdf ==
    (/\ last.op = "resample"
     /\ last.self.mode = NDF
     /\ NewMode(last) = NDF) =>
        /\ last.result.ok
        /\ IF NewRate(last) = last.self.rate
           THEN last.result.same /\ last.result.tc = last.self
           ELSE /\ last.result.tc.rate = NewRate(last)
                /\ last.result.tc.mode = NDF
                /\ last.result.tc.framenumber
                       = RoundHalfEven(last.self.framenumber * NewRate(last), last.self.rate)

\* C19: resample fails with NotImplementedError when the object or the
\* target is drop-frame and the target rate and mode are not the object's
\* own; so do + - * / when the right operand is a Timecode of another rate
\* or mode and either side is drop-frame
C19_DropFrameResampleUnsupported ==
    /\ (/\ last.op = "resample"
        /\ last.self.mode = DF \/ NewMode(last) = DF
        /\ <<NewRate(last), NewMode(last)>> # <<last.self.rate, last.self.mode>>) =>
           /\ ~last.result.ok
           /\ last.result.raised = "NotImplementedError"
    /\ (/\ last.op \in {"+", "-", "*", "/"}
        /\ last.other.kind = "Timecode"
        /\ <<last.other.tc.rate, last.other.tc.mode>> # <<last.self.rate, last.self.mode>>
        /\ last.self.mode = DF \/ last.other.tc.mode = DF) =>
           /\ ~last.result.ok
           /\ last.result.raised = "NotImplementedError"

\* C19 witness: Timecode(60, 24) + Timecode(2, 30, DF) failed with
\* NotImplementedError
C19_Witness ==
    /\ last.op = "+"
    /\ last.self = [framenumber |-> 60, rate |-> 24, mode |-> NDF]
    /\ last.other = TimecodeArg([framenumber |-> 2, rate |-> 30, mode |-> DF])
    /\ ~last.result.ok
    /\ last.result.raised = "NotImplementedError"

\* C20: a Timecode equals another exactly when frame number, rate and mode
\* are all the same, equals an integer k exactly when its frame number is
\* k, equal Timecodes have equal hashes, and a set of Timecodes holds one
\* element for each distinct (frame number, rate, mode)
C20_EqualityAndHash ==
    /\ (last.op = "==" /\ last.other.kind = "Timecode") =>
           /\ last.result.ok
           /\ last.result.value <=> last.self = last.other.tc
    /\ (last.op = "==" /\ last.other.kind = "int") =>
           /\ last.result.ok
           /\ last.result.value <=> last.self.framenumber = last.other.n
    /\ last.op = "set" =>
           /\ \A i, j \in 1..3 : last.items[i] = last.items[j] => hash(last.items[i]) = hash(last.items[j])
           /\ {last.value[i] : i \in 1..Len(last.value)} = {last.items[i] : i \in 1..3}
           /\ Len(last.value) = Cardinality({last.items[i] : i \in 1..3})

\* C20 witness: Timecode(2, 24) compared unequal with Timecode(2, 30)
C20_Witness ==
    /\ last.op = "=="
    /\ last.self = [framenumber |-> 2, rate |-> 24, mode |-> NDF]
    /\ last.other = TimecodeArg([framenumber |-> 2, rate |-> 30, mode |-> NDF])
    /\ last.result.ok
    /\ ~last.result.value

\* non-drop-frame before drop-frame
ModeRank(m) == IF m = NDF THEN 0 ELSE 1

\* a before b by mode, then rate, then frame number
Precedes(a, b) ==
    \/ ModeRank(a.mode) < ModeRank(b.mode)
    \/ a.mode = b.mode /\ a.rate < b.rate
    \/ a.mode = b.mode /\ a.rate = b.rate /\ a.framenumber < b.framenumber

\* C21: a < b for Timecodes a and b is decided by mode (non-drop-frame
\* first), then rate, then frame number, and sorted() orders a list of
\* Timecodes that way
C21_OrderingPrecedence ==
    /\ (last.op = "<" /\ last.other.kind = "Timecode") =>
           /\ last.result.ok
           /\ last.result.value <=> Precedes(last.self, last.other.tc)
    /\ last.op = "sorted" =>
           /\ last.result.ok
           /\ Len(last.result.value) = 3
           /\ \A i \in 1..2 : ~Precedes(last.result.value[i + 1], last.result.value[i])
           /\ \E p \in [1..3 -> 1..3] :
                  /\ \A i, j \in 1..3 : i # j => p[i] # p[j]
                  /\ \A i \in 1..3 : last.result.value[i] = last.items[p[i]]

\* C28: for Timecodes a and b, a <= b holds exactly when a < b or a == b,
\* a >= b exactly when a > b or a == b, and exactly one of a < b, a == b,
\* a > b holds
C28_ComparisonConsistency ==
    (last.op \in {"<", ">", "<=", ">="} /\ last.other.kind = "Timecode") =>
        /\ last.result.ok
        /\ lt(last.self, last.other).ok
        /\ gt(last.self, last.other).ok
        /\ eq(last.self, last.other).ok
        /\ last.op = "<=" =>
               (last.result.value
                    <=> lt(last.self, last.other).value \/ eq(last.self, last.other).value)
        /\ last.op = ">=" =>
               (last.result.value
                    <=> gt(last.self, last.other).value \/ eq(last.self, last.other).value)
        /\ (IF lt(last.self, last.other).value THEN 1 ELSE 0)
               + (IF gt(last.self, last.other).value THEN 1 ELSE 0)
               + (IF eq(last.self, last.other).value THEN 1 ELSE 0) = 1

(***************************************************************************)
(* TimecodeRange: the claims, stated on the call last made                 *)
(***************************************************************************)
\* the Timecode s + d for compatible s and d
SumOf(s, d) == [framenumber |-> s.framenumber + d.framenumber, rate |-> s.rate, mode |-> s.mode]

\* the Timecode e - s for compatible e and s
DifferenceOf(e, s) == [framenumber |-> e.framenumber - s.framenumber, rate |-> e.rate, mode |-> e.mode]

\* C22: for compatible s and d with d >= 1 frame, the ranges made from
\* (start=s, duration=d), (start=s, end=s+d) and (end=s+d, duration=d) are
\* equal and each has start s, duration d and end s + d; with all three
\* given the construction succeeds exactly when end is s + d
C22_RangeFromAnyTwo ==
    /\ (/\ last.op = "TimecodeRange"
        /\ last.start.kind = "Timecode"
        /\ last.duration.kind = "Timecode"
        /\ is_compatible(last.start.tc, last.duration.tc)
        /\ last.duration.tc.framenumber >= 1) =>
           IF last.end_.kind # "Timecode" \/ last.end_.tc = SumOf(last.start.tc, last.duration.tc)
           THEN /\ last.result.ok
                /\ last.result.range.start = last.start.tc
                /\ last.result.range.duration = last.duration.tc
                /\ range_end(last.result.range).tc = SumOf(last.start.tc, last.duration.tc)
           ELSE ~last.result.ok
    /\ last.op = "rebuild" =>
           /\ range_end(last.self).tc = SumOf(last.self.start, last.self.duration)
           /\ \A r \in {last.start_duration, last.start_end, last.end_duration, last.all_three} :
                  /\ r.ok
                  /\ r.range.start = last.self.start
                  /\ r.range.duration = last.self.duration
                  /\ range_eq(r.range, RangeArg(last.self))
                  /\ range_eq(r.range, RangeArg(last.start_end.range))
                  /\ range_eq(r.range, RangeArg(last.end_duration.range))

\* C22 witness: the range of start 1 and duration 2 at 30 drop-frame was
\* made again from start and end, from end and duration and from all three
C22_Witness ==
    /\ last.op = "rebuild"
    /\ last.self.start = [framenumber |-> 1, rate |-> 30, mode |-> DF]
    /\ last.self.duration = [framenumber |-> 2, rate |-> 30, mode |-> DF]
    /\ last.start_end.ok
    /\ last.end_duration.ok
    /\ last.end_duration.range = last.self
    /\ last.all_three.ok

\* the arguments of a call that are Timecodes
GivenTimecodes(call) ==
    {a.tc : a \in {x \in {call.start, call.end_, call.duration} : x.kind = "Timecode"}}

\* how many of start, end and duration are Timecodes
GivenCount(call) ==
    (IF call.start.kind = "Timecode" THEN 1 ELSE 0)
    + (IF call.end_.kind = "Timecode" THEN 1 ELSE 0)
    + (IF call.duration.kind = "Timecode" THEN 1 ELSE 0)

\* the frames of the duration a call with compatible arguments asks for
AskedDuration(call) ==
    IF call.duration.kind = "Timecode" THEN call.duration.tc.framenumber
    ELSE call.end_.tc.framenumber - call.start.tc.framenumber

\* C23: TimecodeRange(...) fails with ValueError when fewer than two of
\* start, end, duration are given, and with IncompatibleTimecode when the
\* given values differ in rate or mode, when all three are given and end is
\* not start + duration, or when the duration is below 1 frame; every range
\* has a duration of at least 1 frame and of the rate and mode of its start
C23_RangeRejectsInvalid ==
    /\ last.op = "TimecodeRange" =>
           /\ GivenCount(last) < 2 =>
                  ~last.result.ok /\ last.result.raised = "ValueError"
           /\ (/\ GivenCount(last) >= 2
               /\ \/ \E a, b \in GivenTimecodes(last) : ~is_compatible(a, b)
                  \/ GivenCount(last) = 3
                         /\ last.end_.tc # SumOf(last.start.tc, last.duration.tc)
                  \/ AskedDuration(last) < 1) =>
                  ~last.result.ok /\ last.result.raised = "IncompatibleTimecode"
           /\ last.result.ok =>
                  /\ last.result.range.duration.framenumber >= 1
                  /\ is_compatible(last.result.range.start, last.result.range.duration)
    /\ this # NoRange =>
           /\ this.duration.framenumber >= 1
           /\ is_compatible(this.start, this.duration)

\* C23 witness: TimecodeRange(start=Timecode(2), end=Timecode(2)) failed
\* with IncompatibleTimecode and no range exists
C23_Witness ==
    /\ last.op = "TimecodeRange"
    /\ last.start = TimecodeArg([framenumber |-> 2, rate |-> 24, mode |-> NDF])
    /\ last.end_ = TimecodeArg([framenumber |-> 2, rate |-> 24, mode |-> NDF])
    /\ last.duration = NoneArg
    /\ ~last.result.ok
    /\ last.result.raised = "IncompatibleTimecode"
    /\ this = NoRange

\* x lies in r: a range of r's rate and mode between r's start and end,
\* or a Timecode of r's rate and mode from r's start to r's end
LiesIn(x, r) ==
    \/ /\ x.kind = "TimecodeRange"
       /\ is_compatible(r.start, x.range.start)
       /\ r.start.framenumber <= x.range.start.framenumber
       /\ x.range.start.framenumber + x.range.duration.framenumber
              <= r.start.framenumber + r.duration.framenumber
    \/ /\ x.kind = "Timecode"
       /\ is_compatible(r.start, x.tc)
       /\ r.start.framenumber <= x.tc.framenumber
       /\ x.tc.framenumber <= r.start.framenumber + r.duration.framenumber

\* C24: x in r raises nothing and is true exactly when x is a range of
\* r's rate and mode within r, or a Timecode of r's rate and mode from
\* r.start to r.end; so r in r holds
C24_Containment ==
    last.op = "in" =>
        /\ last.result.ok
        /\ last.result.value <=> LiesIn(last.other, last.self)

\* C25: iterating a range yields one Timecode at the range's rate and mode
\* for each frame from start.frame up to but not including end.frame, in
\* increasing order, as many as len(range) and duration.frame, and
\* iterating again yields the same
C25_RangeIteration ==
    last.op = "iter" =>
        /\ Len(last.first) = last.len
        /\ last.len = last.self.duration.framenumber
        /\ \A i \in 1..Len(last.first) :
               last.first[i] = [framenumber |-> last.self.start.framenumber + i - 1,
                                rate |-> last.self.start.rate,
                                mode |-> last.self.start.mode]
        /\ last.first[Len(last.first)].framenumber + 1
               = SumOf(last.self.start, last.self.duration).framenumber
        /\ last.second = last.first

\* C25 witness: the range of start -1 and duration 2 at 24 yielded the
\* frames -1 and 0
C25_Witness ==
    /\ last.op = "iter"
    /\ last.self.start = [framenumber |-> -1, rate |-> 24, mode |-> NDF]
    /\ last.len = 2
    /\ last.first = <<[framenumber |-> -1, rate |-> 24, mode |-> NDF],
                      [framenumber |-> 0, rate |-> 24, mode |-> NDF]>>
    /\ last.second = last.first

\* C26: resample of a non-drop-frame range to a non-drop-frame rate >= 1
\* returns a range with a duration of at least 1 frame whose start and
\* duration are the resampled start and duration, and a duration of whole
\* seconds keeps its label
C26_RangeResample ==
    (/\ last.op = "resample"
     /\ last.self.start.mode = NDF
     /\ last.mode # DF) =>
        /\ last.result.ok
        /\ last.result.range.duration.framenumber >= 1
        /\ last.result.range.start = resample(last.self.start, last.rate, last.mode).tc
        /\ last.result.range.duration = resample(last.self.duration, last.rate, last.mode).tc
        /\ last.self.duration.framenumber % last.self.duration.rate = 0 =>
               formatted(last.result.range.duration) = formatted(last.self.duration)

\* the canonical name: the kind letter alone for index 1, the letter
\* followed by the index otherwise
CanonicalName(t) == IF t.index = 1 THEN <<t.type>> ELSE <<t.type>> \o IntStr(t.index)

\* C27: the name of a Track is its canonical name; a == b exactly when the
\* names are equal; a < b and a > b depend on the names alone and form a
\* total order consistent with equality: exactly one of a < b, a == b,
\* a > b holds, a > b exactly when b < a, and a <= b exactly when a < b or
\* a == b
C27_TrackIdentity ==
    /\ last.op = "Track" /\ last.ok =>
           \A i \in 1..2 : TrackName(this[i]) = CanonicalName(this[i])
    /\ (last.op \in {"<", "==", ">", "<=", ">="} /\ last.other.kind = "Track") =>
           /\ track_eq(last.self, last.other)
                  <=> CanonicalName(last.self) = CanonicalName(last.other.track)
           /\ (IF track_lt(last.self, last.other) THEN 1 ELSE 0)
                  + (IF track_eq(last.self, last.other) THEN 1 ELSE 0)
                  + (IF track_gt(last.self, last.other) THEN 1 ELSE 0) = 1
           /\ last.op = ">" => (last.value <=> track_lt(last.other.track, TrackArg(last.self)))
           /\ last.op = "<" => (last.reverse <=> track_gt(last.self, last.other))
           /\ last.op = "<=" =>
                  (last.value <=> \/ track_lt(last.self, last.other)
                                  \/ track_eq(last.self, last.other))

\* the line matches a statement grammar and its source out or its record
\* out (the last four tokens are source in, source out, record in, record
\* out) is not later than the in before it
HasEmptyOrReversedRange(l) ==
    /\ MatchesStatement(l)
    /\ \/ LabelFrames(l.toks[Len(l.toks) - 2]) <= LabelFrames(l.toks[Len(l.toks) - 3])
       \/ LabelFrames(l.toks[Len(l.toks)]) <= LabelFrames(l.toks[Len(l.toks) - 1])

C30_SubclipBounds ==
    last.op = "subclip" =>
        /\ last.result.ok <=> LiesIn(last.timecode, last.self.timecode)
        /\ last.result.ok =>
               /\ last.result.shot.kind = "Subclip"
               /\ last.result.shot.timecode = last.timecode.range
               /\ shot_contains(last.self, ShotArg(last.result.shot))
                      = [ok |-> TRUE, value |-> TRUE]
               /\ shot_contains(masterclip(last.self), ShotArg(last.result.shot))
                      = [ok |-> TRUE, value |-> TRUE]
               /\ last.timecode.range # last.self.timecode =>
                      shot_contains(last.result.shot, ShotArg(last.self))
                          = [ok |-> TRUE, value |-> FALSE]

====
